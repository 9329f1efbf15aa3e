-------------------------- MODULE UdpSessionsProofs --------------------------
(***************************************************************************)
(* Both ends of a tunnel agree on what a UDP session is, each keeps at     *)
(* most one entry for it and no more than the service allows, and no       *)
(* request is taken for a replay, for all services, endpoints, limits and  *)
(* timeouts.                                                               *)
(***************************************************************************)
EXTENDS UdpSessions, FiniteSetTheorems, SequenceTheorems, TLAPS

Keys == [id : Nat, svc : Services, peer : Peers]

\* The ids given out, o, are at most n and each stands for one session.
Book(o, n) ==
    /\ n \in Nat /\ o \in SUBSET Keys
    /\ \A k \in o : k.id <= n
    /\ \A j, k \in o : j.id = k.id => j = k

\* A table holds sessions of o, each once.
Table(t, o) ==
    /\ t \in SUBSET Entries
    /\ IsFiniteSet(t) /\ Cardinality(t) <= MAX_UDP_SESSIONS
    /\ \A r \in t : Key(r) \in o
    /\ \A r, s \in t : r.id = s.id => r = s

\* The datagrams of q belong to sessions of o.
Queue(q, o) ==
    /\ q \in Seq(Messages)
    /\ \A i \in 1..Len(q) : Key(q[i]) \in o

\* An endpoint has one session per service.
Pairs(t) == \A r, s \in t : r.svc = s.svc /\ r.peer = s.peer => r = s

\* The inductive invariant.
Inv ==
    /\ Book(opened, next_stream)
    /\ Table(s_udp, opened) /\ Pairs(s_udp)
    /\ Table(c_udp, opened)
    /\ Queue(down, opened) /\ Queue(up, opened)

LEMMA Constants ==
    /\ MAX_UDP_SESSIONS \in Nat /\ IdleTimeout \in Nat
BY UdpAssumption

-----------------------------------------------------------------------------
(***************************************************************************)
(* Changes of one table.                                                   *)
(***************************************************************************)

\* An entry takes the place of another.
LEMMA Replaced ==
    ASSUME NEW t, IsFiniteSet(t), NEW r \in t, NEW e
    PROVE  LET u == (t \ {r}) \cup {e}
           IN  IsFiniteSet(u) /\ Cardinality(u) \in Nat /\ Cardinality(u) <= Cardinality(t)
<1>1. /\ IsFiniteSet(t \ {r}) /\ Cardinality(t \ {r}) = Cardinality(t) - 1
      /\ Cardinality(t) \in Nat
  BY FS_RemoveElement, FS_CardinalityType
<1>2. /\ IsFiniteSet((t \ {r}) \cup {e})
      /\ Cardinality((t \ {r}) \cup {e}) \in {Cardinality(t \ {r}), Cardinality(t \ {r}) + 1}
  BY <1>1, FS_AddElement
<1> QED
  BY <1>1, <1>2, FS_CardinalityType

\* An entry is added to a table that had room.
LEMMA Added ==
    ASSUME NEW t, IsFiniteSet(t), NEW r, NEW e, NEW v, Admits(t, v)
    PROVE  LET u == (t \ {r}) \cup {e}
           IN  IsFiniteSet(u) /\ Cardinality(u) \in Nat /\ Cardinality(u) <= MAX_UDP_SESSIONS
<1>1. /\ IsFiniteSet(t \ {r}) /\ Cardinality(t \ {r}) <= Cardinality(t)
      /\ Cardinality(t) \in Nat /\ Cardinality(t \ {r}) \in Nat
  <2>1. t \ {r} \in SUBSET t
    OBVIOUS
  <2> QED
    BY <2>1, FS_Subset, FS_CardinalityType
<1>2. /\ IsFiniteSet((t \ {r}) \cup {e})
      /\ Cardinality((t \ {r}) \cup {e}) \in {Cardinality(t \ {r}), Cardinality(t \ {r}) + 1}
  BY <1>1, FS_AddElement
<1>3. Cardinality(t) < MAX_UDP_SESSIONS
  BY DEF Admits
<1> QED
  BY <1>1, <1>2, <1>3, Constants, FS_CardinalityType

\* The parts of the key of an entry and of its datagrams.
LEMMA EntryKeys ==
    ASSUME NEW r \in Entries, NEW n \in Nat
    PROVE  /\ r.id \in Nat /\ r.tx \in Nat
           /\ Key(r) \in Keys /\ Key(r).id = r.id
           /\ Datagram(r, n) \in Messages /\ Key(Datagram(r, n)) = Key(r)
BY DEF Entries, Messages, Key, Keys, Datagram

\* e is the entry r with its counters changed.
Same(e, r) ==
    e \in Entries /\ Key(e) = Key(r) /\ e.id = r.id /\ e.svc = r.svc /\ e.peer = r.peer

LEMMA Touched ==
    ASSUME NEW r \in Entries, NEW n \in Nat
    PROVE  /\ Same([r EXCEPT !.tx = @ + 1, !.idle = 0], r)
           /\ Same([r EXCEPT !.seen = @ \cup {n}, !.idle = 0], r)
<1>1. r.tx + 1 \in Nat
  BY DEF Entries
<1>2. Same([r EXCEPT !.tx = @ + 1, !.idle = 0], r)
  BY <1>1 DEF Entries, Key, Same
<1>3. r.seen \cup {n} \in SUBSET Nat
  BY DEF Entries
<1>4. Same([r EXCEPT !.seen = @ \cup {n}, !.idle = 0], r)
  BY <1>3 DEF Entries, Key, Same
<1> QED
  BY <1>2, <1>4

LEMMA NewEntry ==
    ASSUME NEW id \in Nat, NEW v \in Services, NEW q \in Peers
    PROVE  LET e == Session(id, v, q)
           IN  /\ e \in Entries /\ Key(e) = [id |-> id, svc |-> v, peer |-> q]
               /\ e.id = id /\ e.svc = v /\ e.peer = q /\ e.tx = 0
BY DEF Session, Entries, Key

LEMMA ReplacedTable ==
    ASSUME NEW t, NEW o, Table(t, o), NEW r \in t, NEW e, Same(e, r)
    PROVE  LET u == (t \ {r}) \cup {e}
           IN  Table(u, o) /\ (Pairs(t) => Pairs(u))
<1> DEFINE u == (t \ {r}) \cup {e}
<1>1. IsFiniteSet(u) /\ Cardinality(u) <= MAX_UDP_SESSIONS
  <2>1. /\ IsFiniteSet(u) /\ Cardinality(u) \in Nat /\ Cardinality(u) <= Cardinality(t)
        /\ Cardinality(t) \in Nat
    BY Replaced, FS_CardinalityType DEF Table
  <2> QED
    BY <2>1, Constants DEF Table
<1>2. u \in SUBSET Entries /\ \A x \in u : Key(x) \in o
  BY DEF Table, Same
<1>3. \A x, y \in u : x.id = y.id => x = y
  BY DEF Table, Same
<1>4. Pairs(t) => Pairs(u)
  BY DEF Pairs, Same
<1> QED
  BY <1>1, <1>2, <1>3, <1>4 DEF Table

LEMMA AddedTable ==
    ASSUME NEW t, NEW o, Table(t, o), NEW o2, o \in SUBSET o2, NEW v, Admits(t, v),
           NEW r, NEW e \in Entries, Key(e) \in o2, \A s \in t : s.id # e.id
    PROVE  LET u == (t \ {r}) \cup {e}
           IN  /\ Table(u, o2)
               /\ Pairs(t) /\ (\A s \in t : s.svc # e.svc \/ s.peer # e.peer) => Pairs(u)
<1> DEFINE u == (t \ {r}) \cup {e}
<1>1. IsFiniteSet(u) /\ Cardinality(u) <= MAX_UDP_SESSIONS
  BY Added DEF Table
<1>2. u \in SUBSET Entries /\ \A x \in u : Key(x) \in o2
  BY DEF Table
<1>3. \A x, y \in u : x.id = y.id => x = y
  BY DEF Table
<1>4. Pairs(t) /\ (\A s \in t : s.svc # e.svc \/ s.peer # e.peer) => Pairs(u)
  BY DEF Pairs
<1> QED
  BY <1>1, <1>2, <1>3, <1>4 DEF Table

\* Expiry removes entries, and more ids may be given out.
LEMMA LessTable ==
    ASSUME NEW t, NEW o, Table(t, o), NEW o2, o \in SUBSET o2, NEW u \in SUBSET t
    PROVE  Table(u, o2) /\ (Pairs(t) => Pairs(u))
<1>1. IsFiniteSet(u) /\ Cardinality(u) <= MAX_UDP_SESSIONS
  <2>1. /\ IsFiniteSet(u) /\ Cardinality(u) <= Cardinality(t)
        /\ Cardinality(u) \in Nat /\ Cardinality(t) \in Nat
    BY FS_Subset, FS_CardinalityType DEF Table
  <2> QED
    BY <2>1, Constants DEF Table
<1> QED
  BY <1>1 DEF Table, Pairs

\* Time passes for every entry of a table.
LEMMA OlderTable ==
    ASSUME NEW t, NEW o, Table(t, o)
    PROVE  Table(Older(t), o) /\ (Pairs(t) => Pairs(Older(t)))
<1> DEFINE f == [r \in t |-> [r EXCEPT !.idle = Aged(@)]]
           T == {f[r] : r \in t}
<1>1. Older(t) = T
  BY DEF Older
<1>2. \A r \in t : /\ f[r] \in Entries /\ Key(f[r]) = Key(r)
                   /\ f[r].id = r.id /\ f[r].svc = r.svc /\ f[r].peer = r.peer
  <2>1. \A n \in Nat : Aged(n) \in Nat
    BY Constants DEF Aged
  <2> QED
    BY <2>1 DEF Table, Entries, Key
<1>3. IsFiniteSet(T) /\ Cardinality(T) <= Cardinality(t) /\ Cardinality(T) \in Nat
  <2>1. f \in Surjection(t, T)
    BY DEF Surjection
  <2> HIDE DEF f, T
  <2> QED
    BY <2>1, FS_Surjection, FS_CardinalityType DEF Table
<1> HIDE DEF f
<1>4. Cardinality(T) <= MAX_UDP_SESSIONS
  BY <1>3, Constants, FS_CardinalityType DEF Table
<1>5. T \in SUBSET Entries /\ \A x \in T : Key(x) \in o
  BY <1>2 DEF Table
<1>6. \A x, y \in T : x.id = y.id => x = y
  BY <1>2 DEF Table
<1>7. Pairs(t) => Pairs(T)
  BY <1>2 DEF Pairs
<1> HIDE DEF T
<1> QED
  BY <1>1, <1>3, <1>4, <1>5, <1>6, <1>7 DEF Table
-----------------------------------------------------------------------------
(***************************************************************************)
(* Changes of one queue.                                                   *)
(***************************************************************************)

LEMMA AppendQueue ==
    ASSUME NEW q, NEW o, Queue(q, o), NEW o2, o \in SUBSET o2,
           NEW m \in Messages, Key(m) \in o2
    PROVE  Queue(Append(q, m), o2)
<1>1. q \in Seq(Messages)
  BY DEF Queue
<1>2. /\ Append(q, m) \in Seq(Messages)
      /\ Len(Append(q, m)) = Len(q) + 1 /\ Len(q) \in Nat
      /\ \A i \in 1..Len(q) : Append(q, m)[i] = q[i]
      /\ Append(q, m)[Len(q) + 1] = m
  BY <1>1, AppendProperties
<1>3. ASSUME NEW i \in 1..Len(Append(q, m)) PROVE Key(Append(q, m)[i]) \in o2
  <2>1. CASE i = Len(q) + 1
    BY <1>2, <2>1
  <2>2. CASE i \in 1..Len(q)
    BY <1>2, <2>2 DEF Queue
  <2> QED
    BY <1>2, <2>1, <2>2
<1> QED
  BY <1>2, <1>3 DEF Queue

LEMMA TailQueue ==
    ASSUME NEW q, NEW o, Queue(q, o), q # <<>>
    PROVE  Queue(Tail(q), o) /\ Head(q) \in Messages /\ Key(Head(q)) \in o
<1>1. q \in Seq(Messages)
  BY DEF Queue
<1>2. /\ Head(q) \in Messages /\ Tail(q) \in Seq(Messages)
      /\ Len(Tail(q)) = Len(q) - 1 /\ Len(q) \in Nat
      /\ \A i \in 1..Len(Tail(q)) : Tail(q)[i] = q[i + 1]
  BY <1>1, HeadTailProperties
<1>3. Head(q) = q[1] /\ Len(q) > 0
  BY <1>1
<1> QED
  BY <1>2, <1>3 DEF Queue

LEMMA SameQueue ==
    ASSUME NEW q, NEW o, Queue(q, o), NEW o2, o \in SUBSET o2
    PROVE  Queue(q, o2)
BY DEF Queue

LEMMA EmptyParts == Table({}, {}) /\ Pairs({}) /\ Queue(<<>>, {}) /\ Book({}, 0)
<1>1. Table({}, {})
  BY FS_EmptySet, Constants DEF Table
<1>2. Queue(<<>>, {})
  BY DEF Queue
<1> QED
  BY <1>1, <1>2 DEF Pairs, Book
-----------------------------------------------------------------------------
(***************************************************************************)
(* The steps.                                                              *)
(***************************************************************************)

LEMMA InitInv == Init => Inv
BY EmptyParts DEF Init, Inv

\* A datagram of a known endpoint.
LEMMA ForwardKnown ==
    ASSUME Inv, NEW s \in s_udp, Forward(s), UNCHANGED <<c_udp, next_stream, up, opened>>
    PROVE  Inv'
<1>1. s \in Entries /\ Key(s) \in opened
  BY DEF Inv, Table
<1>2. s.tx + 1 \in Nat
  BY <1>1, EntryKeys
<1>3. Same([s EXCEPT !.tx = @ + 1, !.idle = 0], s)
  BY <1>1, <1>2, Touched
<1>4. Table(s_udp', opened) /\ Pairs(s_udp')
  BY <1>3, ReplacedTable DEF Inv, Forward
<1>5. Datagram(s, s.tx + 1) \in Messages /\ Key(Datagram(s, s.tx + 1)) = Key(s)
  BY <1>1, <1>2, EntryKeys
<1>6. Queue(down', opened)
  BY <1>1, <1>5, AppendQueue DEF Inv, Forward
<1> QED
  BY <1>4, <1>6 DEF Inv

\* A datagram of a new endpoint: the id is one that nothing names yet.
LEMMA ForwardNew ==
    ASSUME Inv, NEW v \in Services, NEW q \in Peers,
           server_udp_find(v, q) = {}, Admits(s_udp, v), TakeId,
           opened' = opened \cup {[id |-> next_stream + 1, svc |-> v, peer |-> q]},
           Forward(Session(next_stream + 1, v, q)), UNCHANGED <<c_udp, up>>
    PROVE  Inv'
<1> DEFINE s == Session(next_stream + 1, v, q)
           e == [s EXCEPT !.tx = @ + 1, !.idle = 0]
           k == [id |-> next_stream + 1, svc |-> v, peer |-> q]
<1>1. next_stream \in Nat /\ next_stream + 1 \in Nat
  BY DEF Inv, Book
<1>2. s \in Entries /\ Key(s) = k /\ s.id = next_stream + 1 /\ s.svc = v /\ s.peer = q /\ s.tx = 0
  BY <1>1, NewEntry
<1>3. s_udp' = (s_udp \ {s}) \cup {e} /\ down' = Append(down, Datagram(s, s.tx + 1))
  BY DEF Forward
<1> HIDE DEF s
<1>4. Same(e, s)
  BY <1>1, <1>2, Touched
<1>5. Book(opened', next_stream')
  BY <1>1 DEF Inv, Book, Keys, TakeId
<1>6. k \in opened' /\ opened \in SUBSET opened'
  OBVIOUS
<1> HIDE DEF e
<1>7. \A r \in s_udp : r.id # e.id
  <2>1. \A r \in s_udp : Key(r) \in opened /\ Key(r).id = r.id
    BY EntryKeys DEF Inv, Table
  <2> QED
    BY <1>1, <1>2, <1>4, <2>1 DEF Inv, Book, Same, Keys
<1>8. \A r \in s_udp : r.svc # e.svc \/ r.peer # e.peer
  BY <1>2, <1>4 DEF server_udp_find, Same
<1>9. Table(s_udp', opened') /\ Pairs(s_udp')
  <2>1. e \in Entries /\ Key(e) \in opened'
    BY <1>2, <1>4, <1>6 DEF Same
  <2> QED
    BY <1>3, <1>6, <1>7, <1>8, <2>1, AddedTable DEF Inv
<1>10. Datagram(s, s.tx + 1) \in Messages /\ Key(Datagram(s, s.tx + 1)) = k
  BY <1>2, EntryKeys
<1> HIDE DEF k
<1>11. Queue(down', opened')
  BY <1>3, <1>6, <1>10, AppendQueue DEF Inv
<1>12. Table(c_udp', opened') /\ Queue(up', opened')
  BY <1>6, LessTable, SameQueue DEF Inv
<1> QED
  BY <1>5, <1>9, <1>11, <1>12 DEF Inv

LEMMA FromExternalInv ==
    ASSUME Inv, NEW v \in Services, NEW q \in Peers, server_udp_from_external(v, q)
    PROVE  Inv'
<1>1. CASE \E s \in server_udp_find(v, q) : s.tx < MaxSeq /\ Forward(s)
  BY <1>1, ForwardKnown DEF server_udp_from_external, server_udp_find
<1>2. CASE ~\E s \in server_udp_find(v, q) : s.tx < MaxSeq /\ Forward(s)
  BY <1>2, ForwardNew DEF server_udp_from_external
<1> QED
  BY <1>1, <1>2

LEMMA FromClientInv == ASSUME Inv, server_udp_from_client PROVE Inv'
<1> DEFINE m == Head(up)
<1>1. Queue(up', opened) /\ m \in Messages
  BY TailQueue DEF Inv, server_udp_from_client
<1>2. Table(s_udp', opened) /\ Pairs(s_udp')
  <2>1. CASE UNCHANGED s_udp
    BY <2>1 DEF Inv
  <2>2. CASE \E s \in s_udp : s_udp' = Accepted(s_udp, s, m.seq)
    <3>1. PICK s \in s_udp : s_udp' = Accepted(s_udp, s, m.seq)
      BY <2>2
    <3>2. m.seq \in Nat /\ s \in Entries
      BY <1>1 DEF Messages, Inv, Table
    <3>3. Same([s EXCEPT !.seen = @ \cup {m.seq}, !.idle = 0], s)
      BY <3>2, Touched
    <3> QED
      BY <3>1, <3>3, ReplacedTable DEF Inv, Accepted
  <2> QED
    BY <2>1, <2>2 DEF server_udp_from_client
<1> QED
  BY <1>1, <1>2 DEF Inv, server_udp_from_client

\* The client creates its half from the datagram, which the server sent for
\* a session it opened.
LEMMA FromServerInv == ASSUME Inv, client_udp_from_server PROVE Inv'
<1> DEFINE m   == Head(down)
           new == Session(m.id, m.svc, m.peer)
<1>1. Queue(down', opened) /\ m \in Messages /\ Key(m) \in opened
  BY TailQueue DEF Inv, client_udp_from_server
<1>2. m.seq \in Nat /\ m.id \in Nat /\ m.svc \in Services /\ m.peer \in Peers
  BY <1>1 DEF Messages
<1>3. Table(c_udp', opened)
  <2>1. CASE UNCHANGED c_udp
    BY <2>1 DEF Inv
  <2>2. CASE \E c \in c_udp : c_udp' = Accepted(c_udp, c, m.seq)
    <3>1. PICK c \in c_udp : c_udp' = Accepted(c_udp, c, m.seq)
      BY <2>2
    <3>2. c \in Entries
      BY DEF Inv, Table
    <3>3. Same([c EXCEPT !.seen = @ \cup {m.seq}, !.idle = 0], c)
      BY <1>2, <3>2, Touched
    <3> QED
      BY <3>1, <3>3, ReplacedTable DEF Inv, Accepted
  <2>3. CASE /\ {c \in c_udp : c.id = m.id} = {}
             /\ Admits(c_udp, m.svc)
             /\ c_udp' = Accepted(c_udp, new, m.seq)
    <3>1. new \in Entries /\ Key(new) = Key(m) /\ new.id = m.id
      BY <1>2, NewEntry DEF Key
    <3> DEFINE e == [new EXCEPT !.seen = @ \cup {m.seq}, !.idle = 0]
    <3>2. c_udp' = (c_udp \ {new}) \cup {e}
      BY <2>3 DEF Accepted
    <3> HIDE DEF new
    <3>3. Same(e, new)
      BY <1>2, <3>1, Touched
    <3> HIDE DEF e
    <3>4. e \in Entries /\ Key(e) \in opened /\ e.id = m.id
      BY <1>1, <3>1, <3>3 DEF Same
    <3>5. \A c \in c_udp : c.id # e.id
      BY <2>3, <3>4
    <3>6. Admits(c_udp, m.svc) /\ Table(c_udp, opened) /\ opened \in SUBSET opened
      BY <2>3 DEF Inv
    <3> HIDE DEF m
    <3>7. Table((c_udp \ {new}) \cup {e}, opened)
      BY <3>4, <3>5, <3>6, AddedTable
    <3> QED
      BY <3>2, <3>7
  <2> QED
    BY <2>1, <2>2, <2>3 DEF client_udp_from_server
<1> QED
  BY <1>1, <1>3 DEF Inv, client_udp_from_server

LEMMA FromLocalInv == ASSUME Inv, NEW c \in c_udp, client_udp_from_local(c) PROVE Inv'
<1>1. c \in Entries /\ Key(c) \in opened
  BY DEF Inv, Table
<1>2. c.tx + 1 \in Nat
  BY <1>1, EntryKeys
<1>3. Same([c EXCEPT !.tx = @ + 1, !.idle = 0], c)
  BY <1>1, <1>2, Touched
<1>4. Table(c_udp', opened)
  BY <1>3, ReplacedTable DEF Inv, client_udp_from_local
<1>5. Datagram(c, c.tx + 1) \in Messages /\ Key(Datagram(c, c.tx + 1)) = Key(c)
  BY <1>1, <1>2, EntryKeys
<1>6. Queue(up', opened)
  BY <1>1, <1>5, AppendQueue DEF Inv, client_udp_from_local
<1> QED
  BY <1>4, <1>6 DEF Inv, client_udp_from_local

LEMMA StepInv == Inv /\ [Next]_vars => Inv'
<1> SUFFICES ASSUME Inv, [Next]_vars PROVE Inv'
  OBVIOUS
<1>1. ASSUME NEW v \in Services, NEW q \in Peers, server_udp_from_external(v, q) PROVE Inv'
  BY <1>1, FromExternalInv
<1>2. CASE StreamStarts
  BY <1>2 DEF StreamStarts, Inv, Book, Keys
<1>3. CASE server_udp_from_client
  BY <1>3, FromClientInv
<1>4. CASE server_udp_expire
  BY <1>4, LessTable DEF server_udp_expire, Inv
<1>5. CASE client_udp_from_server
  BY <1>5, FromServerInv
<1>6. ASSUME NEW c \in c_udp, client_udp_from_local(c) PROVE Inv'
  BY <1>6, FromLocalInv
<1>7. CASE client_udp_expire
  BY <1>7, LessTable DEF client_udp_expire, Inv
<1>8. CASE SessionEnds
  BY <1>8, EmptyParts DEF SessionEnds, Inv
<1>9. CASE Tick
  BY <1>9, OlderTable DEF Tick, Inv
<1>10. CASE UNCHANGED vars
  BY <1>10 DEF vars, Inv
<1> QED
  BY <1>1, <1>2, <1>3, <1>4, <1>5, <1>6, <1>7, <1>8, <1>9, <1>10 DEF Next

LEMMA InvGives == Inv => TypeOK /\ Agreement /\ OneSession
<1> SUFFICES ASSUME Inv PROVE TypeOK /\ Agreement /\ OneSession
  OBVIOUS
<1>1. TypeOK
  BY DEF Inv, Table, Queue, Book, Keys, TypeOK
<1>2. DOMAIN down = 1..Len(down) /\ DOMAIN up = 1..Len(up)
  BY DEF Inv, Queue
<1>3. Agreement
  BY <1>2 DEF Inv, Table, Queue, Book, Agreement, Named
<1>4. OneSession
  BY DEF Inv, Table, Pairs, OneSession
<1> QED
  BY <1>1, <1>3, <1>4

\* Neither session table outgrows its array, for every size of the arrays
\* and limits of the services.
THEOREM TablesFit == Spec => []TypeOK
<1>1. Spec => []Inv
  BY InitInv, StepInv, PTL DEF Spec
<1> QED
  BY <1>1, InvGives, PTL

\* Both ends and every datagram between them mean the same service and
\* endpoint by a session id, however the halves of sessions expire, come
\* back and share next_stream with the TCP streams.
THEOREM EndsAgree == Spec => []Agreement
<1>1. Spec => []Inv
  BY InitInv, StepInv, PTL DEF Spec
<1> QED
  BY <1>1, InvGives, PTL

\* An endpoint has at most one session per service at the server, and an id
\* at most one entry in each table.
THEOREM SessionsUnique == Spec => []OneSession
<1>1. Spec => []Inv
  BY InitInv, StepInv, PTL DEF Spec
<1> QED
  BY <1>1, InvGives, PTL
-----------------------------------------------------------------------------
(***************************************************************************)
(* The sequence numbers towards the client.  They grow along the queue,    *)
(* none is beyond the counter of its session at the server, and the client *)
(* has seen only numbers below those still on their way, whether its half  *)
(* is the first one or came back after an expiry.                          *)
(***************************************************************************)

Numbered(q, st, ct) ==
    /\ \A i, j \in 1..Len(q) : i < j /\ q[i].id = q[j].id => q[i].seq < q[j].seq
    /\ \A i \in 1..Len(q) : \A s \in st : s.id = q[i].id => q[i].seq <= s.tx
    /\ \A c \in ct, s \in st : c.id = s.id => \A k \in c.seen : k <= s.tx
    /\ \A c \in ct : \A i \in 1..Len(q) : c.id = q[i].id => \A k \in c.seen : k < q[i].seq

\* Entries that expire, or change in what Numbered does not look at.
LEMMA SameNumbers ==
    ASSUME NEW q, NEW st, NEW ct, Numbered(q, st, ct), NEW st2, NEW ct2,
           \A s \in st2 : \E r \in st : s.id = r.id /\ s.tx = r.tx,
           \A c \in ct2 : \E r \in ct : c.id = r.id /\ c.seen = r.seen
    PROVE  Numbered(q, st2, ct2)
<1>1. \A i \in 1..Len(q) : \A s \in st2 : s.id = q[i].id => q[i].seq <= s.tx
  BY DEF Numbered
<1>2. ASSUME NEW c \in ct2, NEW s \in st2, c.id = s.id PROVE \A k \in c.seen : k <= s.tx
  <2>1. PICK r \in st : s.id = r.id /\ s.tx = r.tx
    OBVIOUS
  <2>2. PICK d \in ct : c.id = d.id /\ c.seen = d.seen
    OBVIOUS
  <2> QED
    BY <1>2, <2>1, <2>2 DEF Numbered
<1>3. \A c \in ct2 : \A i \in 1..Len(q) : c.id = q[i].id => \A k \in c.seen : k < q[i].seq
  BY DEF Numbered
<1> QED
  BY <1>1, <1>2, <1>3 DEF Numbered

\* The entry e of the server sends the datagram numbered e.tx: every number
\* of its session in use so far is smaller.
LEMMA SentNumber ==
    ASSUME NEW q \in Seq(Messages), NEW st \in SUBSET Entries, NEW ct \in SUBSET Entries,
           Numbered(q, st, ct), NEW rest \in SUBSET st, NEW e \in Entries, NEW m \in Messages,
           m.id = e.id, m.seq = e.tx,
           \A s \in rest : s.id # e.id,
           \A i \in 1..Len(q) : q[i].id = e.id => q[i].seq < e.tx,
           \A c \in ct : c.id = e.id => \A k \in c.seen : k < e.tx
    PROVE  Numbered(Append(q, m), rest \cup {e}, ct)
<1> DEFINE p == Append(q, m)
<1>1. /\ Len(p) = Len(q) + 1 /\ Len(q) \in Nat
      /\ \A i \in 1..Len(q) : p[i] = q[i]
      /\ p[Len(q) + 1] = m
  BY AppendProperties
<1> HIDE DEF p
<1>2. \A i \in 1..Len(p) : i \in 1..Len(q) \/ i = Len(q) + 1
  BY <1>1
<1>3. e.tx \in Nat /\ m.seq \in Nat
  BY DEF Entries, Messages
<1>4. \A i \in 1..Len(q) : q[i] \in Messages /\ q[i].seq \in Nat
  <2>1. \A i \in 1..Len(q) : q[i] \in Messages
    BY ElementOfSeq
  <2> QED
    BY <2>1 DEF Messages
<1>5. \A c \in ct : \A k \in c.seen : k \in Nat
  BY DEF Entries
<1>6. ASSUME NEW i \in 1..Len(p), NEW j \in 1..Len(p), i < j, p[i].id = p[j].id
      PROVE  p[i].seq < p[j].seq
  <2>1. i \in 1..Len(q)
    BY <1>1, <1>6
  <2>2. CASE j \in 1..Len(q)
    BY <1>1, <1>6, <2>1, <2>2 DEF Numbered
  <2>3. CASE j = Len(q) + 1
    BY <1>1, <1>6, <2>1, <2>3
  <2> QED
    BY <1>2, <2>2, <2>3
<1>7. ASSUME NEW i \in 1..Len(p), NEW s \in rest \cup {e}, s.id = p[i].id PROVE p[i].seq <= s.tx
  <2>1. CASE i \in 1..Len(q) /\ s \in rest
    BY <1>1, <1>7, <2>1 DEF Numbered
  <2>2. CASE i \in 1..Len(q) /\ s = e
    BY <1>1, <1>3, <1>4, <1>7, <2>2
  <2>3. CASE i = Len(q) + 1
    BY <1>1, <1>3, <1>7, <2>3
  <2> QED
    BY <1>2, <2>1, <2>2, <2>3
<1>8. ASSUME NEW c \in ct, NEW s \in rest \cup {e}, c.id = s.id, NEW k \in c.seen PROVE k <= s.tx
  <2>1. CASE s \in rest
    BY <1>8, <2>1 DEF Numbered
  <2>2. CASE s = e
    BY <1>3, <1>5, <1>8, <2>2
  <2> QED
    BY <2>1, <2>2
<1>9. ASSUME NEW c \in ct, NEW i \in 1..Len(p), c.id = p[i].id, NEW k \in c.seen PROVE k < p[i].seq
  <2>1. CASE i \in 1..Len(q)
    BY <1>1, <1>9, <2>1 DEF Numbered
  <2>2. CASE i = Len(q) + 1
    BY <1>1, <1>9, <2>2
  <2> QED
    BY <1>2, <2>1, <2>2
<1>10. Numbered(p, rest \cup {e}, ct)
  BY <1>6, <1>7, <1>8, <1>9 DEF Numbered
<1> QED
  BY <1>10 DEF p

\* The client marks the number of the oldest datagram in the entry of its
\* session.
LEMMA SeenNumber ==
    ASSUME NEW q \in Seq(Messages), q # <<>>, NEW st, NEW ct, Numbered(q, st, ct),
           NEW rest \in SUBSET ct, NEW e, e.id = Head(q).id,
           \A k \in e.seen : k = Head(q).seq \/ \E c \in ct : c.id = e.id /\ k \in c.seen
    PROVE  Numbered(Tail(q), st, rest \cup {e})
<1> DEFINE p == Tail(q)
<1>1. /\ Len(p) = Len(q) - 1 /\ Len(q) \in Nat /\ Len(q) > 0 /\ q[1] = Head(q)
      /\ \A i \in 1..Len(p) : p[i] = q[i + 1]
  BY HeadTailProperties
<1> HIDE DEF p
<1>2. 1 \in 1..Len(q) /\ \A i \in 1..Len(p) : i + 1 \in 1..Len(q) /\ 1 < i + 1
  BY <1>1
<1>3. ASSUME NEW i \in 1..Len(p), NEW j \in 1..Len(p), i < j, p[i].id = p[j].id
      PROVE  p[i].seq < p[j].seq
  <2>1. i + 1 < j + 1
    BY <1>3
  <2> QED
    BY <1>1, <1>2, <1>3, <2>1 DEF Numbered
<1>4. \A i \in 1..Len(p) : \A s \in st : s.id = p[i].id => p[i].seq <= s.tx
  BY <1>1, <1>2 DEF Numbered
<1>5. ASSUME NEW c \in rest \cup {e}, NEW s \in st, c.id = s.id, NEW k \in c.seen PROVE k <= s.tx
  <2>1. CASE c \in rest
    BY <1>5, <2>1 DEF Numbered
  <2>2. CASE c = e /\ k = Head(q).seq
    BY <1>1, <1>2, <1>5, <2>2 DEF Numbered
  <2>3. CASE c = e /\ \E d \in ct : d.id = e.id /\ k \in d.seen
    BY <1>5, <2>3 DEF Numbered
  <2> QED
    BY <2>1, <2>2, <2>3
<1>6. ASSUME NEW c \in rest \cup {e}, NEW i \in 1..Len(p), c.id = p[i].id, NEW k \in c.seen
      PROVE  k < p[i].seq
  <2>1. CASE c \in rest
    BY <1>1, <1>2, <1>6, <2>1 DEF Numbered
  <2>2. CASE c = e /\ k = Head(q).seq
    BY <1>1, <1>2, <1>6, <2>2 DEF Numbered
  <2>3. CASE c = e /\ \E d \in ct : d.id = e.id /\ k \in d.seen
    BY <1>1, <1>2, <1>6, <2>3 DEF Numbered
  <2> QED
    BY <2>1, <2>2, <2>3
<1>7. Numbered(p, st, rest \cup {e})
  BY <1>3, <1>4, <1>5, <1>6 DEF Numbered
<1> QED
  BY <1>7 DEF p

\* The datagram is dropped.
LEMMA DroppedNumber ==
    ASSUME NEW q \in Seq(Messages), q # <<>>, NEW st, NEW ct, Numbered(q, st, ct)
    PROVE  Numbered(Tail(q), st, ct)
<1> DEFINE p == Tail(q)
<1>1. /\ Len(p) = Len(q) - 1 /\ Len(q) \in Nat
      /\ \A i \in 1..Len(p) : p[i] = q[i + 1]
  BY HeadTailProperties
<1> HIDE DEF p
<1>2. \A i \in 1..Len(p) : i + 1 \in 1..Len(q)
  BY <1>1
<1>3. \A i, j \in 1..Len(p) : i < j => i + 1 < j + 1
  OBVIOUS
<1>4. Numbered(p, st, ct)
  BY <1>1, <1>2, <1>3 DEF Numbered
<1> QED
  BY <1>4 DEF p

Numbers == Numbered(down, s_udp, c_udp)

\* What Inv says of the parts, in the form the steps below use.
LEMMA Parts ==
    ASSUME Inv
    PROVE  /\ s_udp \in SUBSET Entries /\ c_udp \in SUBSET Entries
           /\ down \in Seq(Messages) /\ up \in Seq(Messages)
           /\ next_stream \in Nat
           /\ \A r \in s_udp \cup c_udp : r.id \in Nat /\ r.id <= next_stream
           /\ \A i \in 1..Len(down) : /\ down[i] \in Messages /\ down[i].id \in Nat
                                      /\ down[i].id <= next_stream
<1>1. \A r \in s_udp \cup c_udp : r \in Entries /\ Key(r) \in opened
  BY DEF Inv, Table
<1>2. \A r \in s_udp \cup c_udp : r.id \in Nat /\ Key(r).id = r.id
  BY <1>1, EntryKeys
<1>3. \A i \in 1..Len(down) : down[i] \in Messages /\ Key(down[i]) \in opened
  BY ElementOfSeq DEF Inv, Queue
<1>4. \A i \in 1..Len(down) : down[i].id \in Nat /\ Key(down[i]).id = down[i].id
  BY <1>3 DEF Messages, Key
<1>5. \A k \in opened : k.id <= next_stream
  BY DEF Inv, Book
<1> QED
  BY <1>1, <1>2, <1>3, <1>4, <1>5 DEF Inv, Table, Queue, Book

LEMMA ForwardNumbers ==
    ASSUME Inv, Numbers, NEW v \in Services, NEW q \in Peers, server_udp_from_external(v, q)
    PROVE  Numbers'
<1>1. UNCHANGED c_udp
  BY DEF server_udp_from_external
<1>2. ASSUME NEW s \in s_udp, Forward(s) PROVE Numbers'
  <2> DEFINE e == [s EXCEPT !.tx = @ + 1, !.idle = 0]
             m == Datagram(s, s.tx + 1)
  <2>1. s \in Entries /\ s.tx \in Nat /\ s.tx + 1 \in Nat
    BY Parts, EntryKeys
  <2>2. e \in Entries /\ e.id = s.id /\ e.tx = s.tx + 1
    BY <2>1, Touched DEF Same, Entries
  <2>3. m \in Messages /\ m.id = s.id /\ m.seq = s.tx + 1
    BY <2>1, EntryKeys DEF Datagram
  <2>4. s_udp' = (s_udp \ {s}) \cup {e} /\ down' = Append(down, m)
    BY <1>2 DEF Forward
  <2> HIDE DEF e, m
  <2>5. \A r \in s_udp \ {s} : r.id # e.id
    BY <2>2 DEF Inv, Table
  <2>6. \A i \in 1..Len(down) : down[i].id = e.id => down[i].seq < e.tx
    <3>1. \A i \in 1..Len(down) : down[i].seq \in Nat
      BY Parts DEF Messages
    <3>2. \A i \in 1..Len(down) : down[i].id = s.id => down[i].seq <= s.tx
      BY DEF Numbers, Numbered
    <3> QED
      BY <2>1, <2>2, <3>1, <3>2
  <2>7. \A c \in c_udp : c.id = e.id => \A k \in c.seen : k < e.tx
    <3>1. \A c \in c_udp : \A k \in c.seen : k \in Nat
      BY Parts DEF Entries
    <3>2. \A c \in c_udp : c.id = s.id => \A k \in c.seen : k <= s.tx
      BY DEF Numbers, Numbered
    <3> QED
      BY <2>1, <2>2, <3>1, <3>2
  <2>8. s_udp \ {s} \in SUBSET s_udp
    OBVIOUS
  <2>9. m.id = e.id /\ m.seq = e.tx /\ e \in Entries /\ m \in Messages
    BY <2>2, <2>3
  <2>10. down \in Seq(Messages) /\ s_udp \in SUBSET Entries /\ c_udp \in SUBSET Entries
    BY Parts
  <2>11. Numbered(Append(down, m), (s_udp \ {s}) \cup {e}, c_udp)
    BY <2>5, <2>6, <2>7, <2>8, <2>9, <2>10, SentNumber DEF Numbers
  <2> QED
    BY <1>1, <2>4, <2>11 DEF Numbers
<1>3. ASSUME Forward(Session(next_stream + 1, v, q)) PROVE Numbers'
  <2> DEFINE s == Session(next_stream + 1, v, q)
             e == [s EXCEPT !.tx = @ + 1, !.idle = 0]
             m == Datagram(s, s.tx + 1)
  <2>1. next_stream + 1 \in Nat
    BY Parts
  <2>2. s \in Entries /\ s.id = next_stream + 1 /\ s.tx = 0
    BY <2>1, NewEntry
  <2>3. s_udp' = (s_udp \ {s}) \cup {e} /\ down' = Append(down, m)
    BY <1>3 DEF Forward
  <2> HIDE DEF s
  <2>4. e \in Entries /\ e.id = next_stream + 1 /\ e.tx = 1
    <3>1. e \in Entries /\ e.id = s.id
      BY <2>2, Touched DEF Same
    <3>2. e.tx = s.tx + 1
      BY <2>2 DEF Entries
    <3> QED
      BY <2>2, <3>1, <3>2
  <2>5. m \in Messages /\ m.id = next_stream + 1 /\ m.seq = 1
    BY <2>2, EntryKeys DEF Datagram
  <2> HIDE DEF e, m
  <2>6. \A r \in s_udp \cup c_udp : r.id # e.id
    BY <2>4, Parts
  <2>7. \A i \in 1..Len(down) : down[i].id # e.id
    BY <2>4, Parts
  <2>8. s_udp \ {s} \in SUBSET s_udp
    OBVIOUS
  <2>9. m.id = e.id /\ m.seq = e.tx /\ e \in Entries /\ m \in Messages
    BY <2>4, <2>5
  <2>10. down \in Seq(Messages) /\ s_udp \in SUBSET Entries /\ c_udp \in SUBSET Entries
    BY Parts
  <2>11. Numbered(Append(down, m), (s_udp \ {s}) \cup {e}, c_udp)
    BY <2>6, <2>7, <2>8, <2>9, <2>10, SentNumber DEF Numbers
  <2> QED
    BY <1>1, <2>3, <2>11 DEF Numbers
<1> QED
  BY <1>2, <1>3 DEF server_udp_from_external, server_udp_find

LEMMA FromServerNumbers == ASSUME Inv, Numbers, client_udp_from_server PROVE Numbers'
<1> DEFINE m   == Head(down)
           new == Session(m.id, m.svc, m.peer)
<1>1. down \in Seq(Messages) /\ c_udp \in SUBSET Entries /\ down # <<>>
  BY Parts DEF client_udp_from_server
<1>2. m \in Messages
  BY <1>1, HeadTailProperties
<1>3. m.id \in Nat /\ m.svc \in Services /\ m.peer \in Peers /\ m.seq \in Nat
  BY <1>2 DEF Messages
<1>4. UNCHANGED s_udp /\ down' = Tail(down)
  BY DEF client_udp_from_server
<1>5. CASE UNCHANGED c_udp
  BY <1>1, <1>4, <1>5, DroppedNumber DEF Numbers
<1>6. ASSUME NEW c \in Entries, c.id = m.id, c \in c_udp \/ c.seen = {},
             c_udp' = Accepted(c_udp, c, m.seq)
      PROVE  Numbers'
  <2> DEFINE e == [c EXCEPT !.seen = @ \cup {m.seq}, !.idle = 0]
  <2>1. e.id = m.id /\ e.seen = c.seen \cup {m.seq}
    BY <1>3, <1>6, Touched DEF Same, Entries
  <2>2. c_udp' = (c_udp \ {c}) \cup {e}
    BY <1>6 DEF Accepted
  <2> HIDE DEF e
  <2>3. \A k \in e.seen : k = m.seq \/ \E d \in c_udp : d.id = e.id /\ k \in d.seen
    BY <1>6, <2>1
  <2>4. c_udp \ {c} \in SUBSET c_udp
    OBVIOUS
  <2>5. Numbered(Tail(down), s_udp, (c_udp \ {c}) \cup {e})
    BY <1>1, <2>1, <2>3, <2>4, SeenNumber DEF Numbers
  <2> QED
    BY <1>4, <2>2, <2>5 DEF Numbers
<1>7. CASE \E c \in {d \in c_udp : d.id = m.id} : c_udp' = Accepted(c_udp, c, m.seq)
  BY <1>1, <1>6, <1>7
<1>8. CASE c_udp' = Accepted(c_udp, new, m.seq)
  <2>1. new \in Entries /\ new.id = m.id /\ new.seen = {}
    BY <1>3, NewEntry DEF Session
  <2> QED
    BY <1>6, <1>8, <2>1
<1> QED
  BY <1>5, <1>7, <1>8 DEF client_udp_from_server

LEMMA StepNumbers == Inv /\ Numbers /\ [Next]_vars => Numbers'
<1> SUFFICES ASSUME Inv, Numbers, [Next]_vars PROVE Numbers'
  OBVIOUS
<1>1. ASSUME UNCHANGED down,
             \A s \in s_udp' : \E r \in s_udp : s.id = r.id /\ s.tx = r.tx,
             \A c \in c_udp' : \E r \in c_udp : c.id = r.id /\ c.seen = r.seen
      PROVE  Numbers'
  BY <1>1, SameNumbers DEF Numbers
<1>2. CASE server_udp_from_client
  <2>1. \A s \in s_udp' : \E r \in s_udp : s.id = r.id /\ s.tx = r.tx
    <3>1. ASSUME NEW s \in s_udp, NEW n, s_udp' = Accepted(s_udp, s, n)
          PROVE  \A x \in s_udp' : \E r \in s_udp : x.id = r.id /\ x.tx = r.tx
      <4> DEFINE e == [s EXCEPT !.seen = @ \cup {n}, !.idle = 0]
      <4>1. e.id = s.id /\ e.tx = s.tx
        BY Parts DEF Entries
      <4>2. s_udp' = (s_udp \ {s}) \cup {e}
        BY <3>1 DEF Accepted
      <4> HIDE DEF e
      <4> QED
        BY <4>1, <4>2
    <3> QED
      BY <1>2, <3>1 DEF server_udp_from_client
  <2> QED
    BY <1>1, <1>2, <2>1 DEF server_udp_from_client
<1>3. ASSUME NEW c \in c_udp, client_udp_from_local(c) PROVE Numbers'
  <2>1. LET e == [c EXCEPT !.tx = @ + 1, !.idle = 0] IN e.id = c.id /\ e.seen = c.seen
    BY Parts DEF Entries
  <2> QED
    BY <1>1, <1>3, <2>1 DEF client_udp_from_local
<1>4. CASE Tick
  <2> DEFINE e(r) == [r EXCEPT !.idle = Aged(@)]
  <2>1. \A r \in s_udp \cup c_udp : e(r).id = r.id /\ e(r).tx = r.tx /\ e(r).seen = r.seen
    BY Parts DEF Entries
  <2>2. /\ s_udp' = {e(r) : r \in s_udp} /\ c_udp' = {e(r) : r \in c_udp}
        /\ UNCHANGED down
    BY <1>4 DEF Tick, Older
  <2> HIDE DEF e
  <2> QED
    BY <1>1, <2>1, <2>2
<1>5. CASE SessionEnds
  BY <1>5 DEF SessionEnds, Numbers, Numbered
<1>6. CASE StreamStarts \/ server_udp_expire \/ client_udp_expire \/ UNCHANGED vars
  BY <1>1, <1>6 DEF StreamStarts, server_udp_expire, client_udp_expire, vars
<1> QED
  BY <1>2, <1>3, <1>4, <1>5, <1>6, ForwardNumbers, FromServerNumbers DEF Next

\* The client never takes a datagram of the server for a replay, although
\* its half of a session forgets the numbers it saw when it expires and the
\* server goes on counting: for every window, timeout and delay.
THEOREM NoRequestReplayed == Spec => []RequestsFresh
<1>1. Init => Numbers
  BY DEF Init, Numbers, Numbered
<1>2. Inv /\ Numbers => RequestsFresh
  <2> SUFFICES ASSUME Inv, Numbers, NEW i \in DOMAIN down, NEW c \in c_udp, c.id = down[i].id
               PROVE  Key(c) = Key(down[i]) /\ Fresh(c, down[i].seq)
    BY DEF RequestsFresh
  <2>1. i \in 1..Len(down)
    BY Parts
  <2>2. Key(c) = Key(down[i])
    <3>1. Key(c) \in opened /\ Key(down[i]) \in opened
      BY <2>1 DEF Inv, Table, Queue
    <3>2. Key(c).id = Key(down[i]).id
      BY DEF Key
    <3> QED
      BY <3>1, <3>2 DEF Inv, Book
  <2>3. \A k \in c.seen : k < down[i].seq
    BY <2>1 DEF Numbers, Numbered
  <2> QED
    BY <2>2, <2>3, Parts, <2>1 DEF Fresh, Entries, Messages
<1> QED
  BY <1>1, <1>2, InitInv, StepInv, StepNumbers, PTL DEF Spec
-----------------------------------------------------------------------------
(***************************************************************************)
(* The limits of the services.  Admission holds the sessions of all        *)
(* services together against the limit of one, which is more than enough.  *)
(***************************************************************************)

Of(t, v)   == {r \in t : r.svc = v}
Bounded(t) == \A v \in Services : Cardinality(Of(t, v)) <= Limit[v]

LEMMA OfCount ==
    ASSUME NEW t, IsFiniteSet(t), NEW u \in SUBSET t
    PROVE  IsFiniteSet(u) /\ Cardinality(u) \in Nat /\ Cardinality(u) <= Cardinality(t)
BY FS_Subset, FS_CardinalityType

LEMMA LimitType == \A v \in Services : Limit[v] \in Nat
BY UdpAssumption

LEMMA LessBounded ==
    ASSUME NEW t, IsFiniteSet(t), Bounded(t), NEW u \in SUBSET t
    PROVE  Bounded(u)
<1> SUFFICES ASSUME NEW v \in Services PROVE Cardinality(Of(u, v)) <= Limit[v]
  BY DEF Bounded
<1>1. Of(u, v) \in SUBSET Of(t, v) /\ Of(t, v) \in SUBSET t
  BY DEF Of
<1>2. IsFiniteSet(Of(t, v)) /\ Cardinality(Of(t, v)) \in Nat
  BY <1>1, OfCount
<1>3. Cardinality(Of(u, v)) \in Nat /\ Cardinality(Of(u, v)) <= Cardinality(Of(t, v))
  BY <1>1, <1>2, OfCount
<1> QED
  BY <1>2, <1>3, LimitType DEF Bounded

LEMMA ReplacedBounded ==
    ASSUME NEW t, IsFiniteSet(t), Bounded(t), NEW r \in t, NEW e, e.svc = r.svc
    PROVE  Bounded((t \ {r}) \cup {e})
<1> DEFINE u == (t \ {r}) \cup {e}
<1> SUFFICES ASSUME NEW v \in Services PROVE Cardinality(Of(u, v)) <= Limit[v]
  BY DEF Bounded
<1>1. Of(t, v) \in SUBSET t
  BY DEF Of
<1>2. IsFiniteSet(Of(t, v)) /\ Cardinality(Of(t, v)) \in Nat
  BY <1>1, OfCount
<1>3. CASE r.svc = v
  <2>1. r \in Of(t, v) /\ Of(u, v) = (Of(t, v) \ {r}) \cup {e}
    BY <1>3 DEF Of
  <2>2. Cardinality(Of(u, v)) \in Nat /\ Cardinality(Of(u, v)) <= Cardinality(Of(t, v))
    BY <1>2, <2>1, Replaced
  <2> QED
    BY <1>2, <2>2, LimitType DEF Bounded
<1>4. CASE r.svc # v
  <2>1. Of(u, v) = Of(t, v)
    BY <1>4 DEF Of
  <2> QED
    BY <2>1 DEF Bounded
<1> QED
  BY <1>3, <1>4

\* A new entry of service e.svc: the whole table was below that limit.
LEMMA AddedBounded ==
    ASSUME NEW t, IsFiniteSet(t), Bounded(t), NEW r, NEW e, Admits(t, e.svc)
    PROVE  Bounded((t \ {r}) \cup {e})
<1> DEFINE u == (t \ {r}) \cup {e}
<1> SUFFICES ASSUME NEW v \in Services PROVE Cardinality(Of(u, v)) <= Limit[v]
  BY DEF Bounded
<1>1. CASE e.svc = v
  <2>1. t \ {r} \in SUBSET t /\ Of(u, v) \in SUBSET u
    BY DEF Of
  <2>2. /\ IsFiniteSet(t \ {r}) /\ Cardinality(t \ {r}) \in Nat
        /\ Cardinality(t \ {r}) <= Cardinality(t) /\ Cardinality(t) \in Nat
    BY <2>1, OfCount, FS_CardinalityType
  <2>3. /\ IsFiniteSet(u)
        /\ Cardinality(u) \in {Cardinality(t \ {r}), Cardinality(t \ {r}) + 1}
    BY <2>2, FS_AddElement
  <2>4. Cardinality(Of(u, v)) \in Nat /\ Cardinality(Of(u, v)) <= Cardinality(u)
    BY <2>1, <2>3, OfCount
  <2>5. Cardinality(t) < Limit[v]
    BY <1>1 DEF Admits
  <2> QED
    BY <2>2, <2>3, <2>4, <2>5, LimitType
<1>2. CASE e.svc # v
  <2>1. Of(u, v) \in SUBSET t /\ Of(Of(u, v), v) = Of(u, v)
    BY <1>2 DEF Of
  <2>2. Bounded(Of(u, v))
    BY <2>1, LessBounded
  <2> QED
    BY <2>1, <2>2 DEF Bounded
<1> QED
  BY <1>1, <1>2

LEMMA OlderBounded ==
    ASSUME NEW t \in SUBSET Entries, IsFiniteSet(t), Bounded(t)
    PROVE  Bounded(Older(t))
<1> SUFFICES ASSUME NEW v \in Services PROVE Cardinality(Of(Older(t), v)) <= Limit[v]
  BY DEF Bounded
<1> DEFINE S == Of(t, v)
           f == [r \in S |-> [r EXCEPT !.idle = Aged(@)]]
           T == {f[r] : r \in S}
<1>1. \A r \in t : [r EXCEPT !.idle = Aged(@)].svc = r.svc
  BY DEF Entries
<1>2. Of(Older(t), v) = T
  BY <1>1 DEF Of, Older
<1>3. IsFiniteSet(S) /\ Cardinality(S) \in Nat
  <2>1. S \in SUBSET t
    BY DEF Of
  <2> QED
    BY <2>1, OfCount
<1>4. Cardinality(T) <= Cardinality(S) /\ Cardinality(T) \in Nat
  <2>1. f \in Surjection(S, T)
    BY DEF Surjection
  <2> HIDE DEF f, T, S
  <2> QED
    BY <1>3, <2>1, FS_Surjection, FS_CardinalityType
<1>5. Cardinality(S) <= Limit[v]
  BY DEF Bounded
<1> HIDE DEF S, T
<1> QED
  BY <1>2, <1>3, <1>4, <1>5, LimitType

LimitsKept == Bounded(s_udp) /\ Bounded(c_udp)

LEMMA FiniteTables == Inv => IsFiniteSet(s_udp) /\ IsFiniteSet(c_udp)
BY DEF Inv, Table

LEMMA FromExternalLimits ==
    ASSUME Inv, LimitsKept, NEW v \in Services, NEW q \in Peers, server_udp_from_external(v, q)
    PROVE  LimitsKept'
<1>1. UNCHANGED c_udp
  BY DEF server_udp_from_external
<1>2. ASSUME NEW s \in s_udp, Forward(s) PROVE Bounded(s_udp')
  <2> DEFINE e == [s EXCEPT !.tx = @ + 1, !.idle = 0]
  <2>1. e.svc = s.svc
    BY Parts DEF Entries
  <2>2. s_udp' = (s_udp \ {s}) \cup {e}
    BY <1>2 DEF Forward
  <2> HIDE DEF e
  <2> QED
    BY <2>1, <2>2, FiniteTables, ReplacedBounded DEF LimitsKept
<1>3. ASSUME Admits(s_udp, v), Forward(Session(next_stream + 1, v, q)) PROVE Bounded(s_udp')
  <2> DEFINE s == Session(next_stream + 1, v, q)
             e == [s EXCEPT !.tx = @ + 1, !.idle = 0]
  <2>1. e.svc = v
    BY DEF Session
  <2>2. s_udp' = (s_udp \ {s}) \cup {e}
    BY <1>3 DEF Forward
  <2> HIDE DEF e, s
  <2> QED
    BY <1>3, <2>1, <2>2, FiniteTables, AddedBounded DEF LimitsKept
<1> QED
  BY <1>1, <1>2, <1>3 DEF server_udp_from_external, server_udp_find, LimitsKept

LEMMA FromServerLimits == ASSUME Inv, LimitsKept, client_udp_from_server PROVE LimitsKept'
<1> DEFINE m   == Head(down)
           new == Session(m.id, m.svc, m.peer)
<1>1. UNCHANGED s_udp
  BY DEF client_udp_from_server
<1>2. ASSUME NEW c \in c_udp, c_udp' = Accepted(c_udp, c, m.seq) PROVE Bounded(c_udp')
  <2> DEFINE e == [c EXCEPT !.seen = @ \cup {m.seq}, !.idle = 0]
  <2>1. e.svc = c.svc
    BY Parts DEF Entries
  <2>2. c_udp' = (c_udp \ {c}) \cup {e}
    BY <1>2 DEF Accepted
  <2> HIDE DEF e
  <2> QED
    BY <2>1, <2>2, FiniteTables, ReplacedBounded DEF LimitsKept
<1>3. ASSUME Admits(c_udp, m.svc), c_udp' = Accepted(c_udp, new, m.seq) PROVE Bounded(c_udp')
  <2> DEFINE e == [new EXCEPT !.seen = @ \cup {m.seq}, !.idle = 0]
  <2>1. e.svc = m.svc
    BY DEF Session
  <2>2. c_udp' = (c_udp \ {new}) \cup {e}
    BY <1>3 DEF Accepted
  <2> HIDE DEF e, new
  <2> QED
    BY <1>3, <2>1, <2>2, FiniteTables, AddedBounded DEF LimitsKept
<1> QED
  BY <1>1, <1>2, <1>3 DEF client_udp_from_server, LimitsKept

LEMMA StepLimits == Inv /\ LimitsKept /\ [Next]_vars => LimitsKept'
<1> SUFFICES ASSUME Inv, LimitsKept, [Next]_vars PROVE LimitsKept'
  OBVIOUS
<1>1. CASE server_udp_from_client
  <2>1. ASSUME NEW s \in s_udp, NEW n, s_udp' = Accepted(s_udp, s, n) PROVE Bounded(s_udp')
    <3> DEFINE e == [s EXCEPT !.seen = @ \cup {n}, !.idle = 0]
    <3>1. e.svc = s.svc
      BY Parts DEF Entries
    <3>2. s_udp' = (s_udp \ {s}) \cup {e}
      BY <2>1 DEF Accepted
    <3> HIDE DEF e
    <3> QED
      BY <3>1, <3>2, FiniteTables, ReplacedBounded DEF LimitsKept
  <2> QED
    BY <1>1, <2>1 DEF server_udp_from_client, LimitsKept
<1>2. ASSUME NEW c \in c_udp, client_udp_from_local(c) PROVE LimitsKept'
  <2> DEFINE e == [c EXCEPT !.tx = @ + 1, !.idle = 0]
  <2>1. e.svc = c.svc
    BY Parts DEF Entries
  <2>2. c_udp' = (c_udp \ {c}) \cup {e} /\ UNCHANGED s_udp
    BY <1>2 DEF client_udp_from_local
  <2> HIDE DEF e
  <2> QED
    BY <2>1, <2>2, FiniteTables, ReplacedBounded DEF LimitsKept
<1>3. CASE server_udp_expire \/ client_udp_expire
  BY <1>3, FiniteTables, LessBounded DEF server_udp_expire, client_udp_expire, LimitsKept
<1>4. CASE SessionEnds
  <2>1. {} \in SUBSET s_udp /\ {} \in SUBSET c_udp
    OBVIOUS
  <2> QED
    BY <1>4, <2>1, FiniteTables, LessBounded DEF SessionEnds, LimitsKept
<1>5. CASE Tick
  BY <1>5, Parts, FiniteTables, OlderBounded DEF Tick, LimitsKept
<1>6. CASE StreamStarts \/ UNCHANGED vars
  BY <1>6 DEF StreamStarts, vars, LimitsKept
<1> QED
  BY <1>1, <1>2, <1>3, <1>4, <1>5, <1>6, FromExternalLimits, FromServerLimits DEF Next

\* No service ever holds more sessions than its udp_max_sessions, at the
\* server or at the client, although admission compares the limit with the
\* sessions of all services together.
THEOREM LimitsHold == Spec => []WithinSessionLimit
<1>1. Init => LimitsKept
  <2>1. \A v \in Services : Of({}, v) = {}
    BY DEF Of
  <2>2. Bounded({})
    <3>1. Cardinality({}) = 0
      BY FS_EmptySet
    <3> QED
      BY <2>1, <3>1, LimitType DEF Bounded
  <2> QED
    BY <2>2 DEF Init, LimitsKept
<1>2. LimitsKept => WithinSessionLimit
  BY DEF LimitsKept, Bounded, Of, WithinSessionLimit
<1> QED
  BY <1>1, <1>2, InitInv, StepInv, StepLimits, PTL DEF Spec
==============================================================================
