---------------------------- MODULE SessionsProofs ---------------------------
(***************************************************************************)
(* A client that runs is served by the server, and no TCP listener has two *)
(* owners, for all clients, services, limits and numbers of faults.        *)
(***************************************************************************)
EXTENDS Sessions, FiniteSetTheorems, SequenceTheorems, TLAPS

States      == {"start", "sleep", "hello", "auth", "register", "running"}
Unsolicited == {"NOTICE", "UDP_DATAGRAM"}
Requests    == {"CLIENT_HELLO", "CLIENT_AUTH"} \cup UNION {Services(c) : c \in Clients}
Replies     == {"SERVER_HELLO", "AUTH_OK", "REGISTER_OK", "REGISTER_FAILED"} \cup Unsolicited

ClientStates == [state : States, conn : Conns \cup {NoConn}, registered : Nat, delay : Nat]
Backlog      == [conn : Conns, client : Clients]
Incoming     == [conn : Conns, client : Clients, waiting_for_auth : BOOLEAN]
Peers        == [conn : Conns, client : Clients, svc : SUBSET Requests]

Shape ==
    /\ client \in [Clients -> ClientStates]
    /\ backlog \in SUBSET Backlog /\ incoming \in SUBSET Incoming /\ peers \in SUBSET Peers
    /\ up \in [Conns -> Seq(Requests)] /\ down \in [Conns -> Seq(Replies)]
    /\ cut \in SUBSET Conns
    /\ faults \in 0..MaxFaults

\* The arrays of the server are not overrun, and a TCP listener has one owner.
Tables ==
    /\ IsFiniteSet(backlog) /\ IsFiniteSet(incoming) /\ IsFiniteSet(peers)
    /\ Cardinality(incoming) <= MAX_INCOMING
    /\ Cardinality(peers) <= max_clients
    /\ \A p, r \in peers : p # r => (p.svc \cap r.svc) \subseteq Udp

\* What a client knows about itself.
Local(c) ==
    /\ client[c].conn = NoConn <=> client[c].state \in {"start", "sleep"}
    /\ client[c].registered <= Len(ServicesOf[c])
    /\ client[c].state = "register" => client[c].registered < Len(ServicesOf[c])
    /\ client[c].delay \in InitialDelay..LongestDelay

Locals == \A c \in Clients : Local(c)

\* A connection has at most one entry at the server and one client, and the
\* entry is that client's.
Distinct(S) == \A r, s \in S : r.conn = s.conn => r = s
Apart(S, T) == \A r \in S, s \in T : r.conn # s.conn

Ends ==
    /\ Distinct(backlog) /\ Distinct(incoming) /\ Distinct(peers)
    /\ Apart(backlog, incoming) /\ Apart(backlog, peers) /\ Apart(incoming, peers)
    /\ \A c, d \in Clients : client[c].conn = client[d].conn /\ client[c].conn # NoConn => c = d

Owned ==
    \A r \in backlog \cup incoming \cup peers : \A c \in Clients :
        client[c].conn = r.conn => r.client = c

-----------------------------------------------------------------------------
(***************************************************************************)
(* The two ends of a connection advance together: the state of the client, *)
(* the messages u to the server and d to the client, and the server's      *)
(* entry are one of the following.                                         *)
(***************************************************************************)

Quiet(d)     == \A j \in 1..Len(d) : d[j] \in Unsolicited
Follows(d)   == d # <<>> /\ \A j \in 2..Len(d) : d[j] \in Unsolicited
Single(d, a) ==
    \E j \in 1..Len(d) : d[j] = a /\ \A i \in 1..Len(d) : i # j => d[i] \in Unsolicited

FirstOf(c, n) == {ServicesOf[c][i] : i \in 1..n}

\* Not accepted yet, or accepted and CLIENT_HELLO not read.
Greeting(s, u, d) == s = "hello" /\ u = <<"CLIENT_HELLO">> /\ d = <<>>

\* Waiting for CLIENT_AUTH.
Proving(s, u, d) ==
    \/ s = "hello" /\ u = <<>> /\ d = <<"SERVER_HELLO">>
    \/ s = "auth" /\ u = <<"CLIENT_AUTH">> /\ d = <<>>

\* A peer with the services S, of which the client has n confirmed.
Serving(c, s, n, u, d, S) ==
    \/ s = "auth" /\ u = <<>> /\ S = {} /\ Follows(d)
    \/ s = "register" /\ u = <<ServicesOf[c][n + 1]>> /\ S = FirstOf(c, n) /\ Quiet(d)
    \/ s = "register" /\ u = <<>> /\ Single(d, "REGISTER_OK") /\ S = FirstOf(c, n + 1)
    \/ s = "register" /\ u = <<>> /\ Single(d, "REGISTER_FAILED")
    \/ s = "running" /\ u = <<>> /\ S = Services(c) /\ Quiet(d)

\* Client c on its connection k.
Phase(c, k) ==
    /\ k \notin cut =>
         /\ \A b \in backlog : b.conn = k => Greeting(client[c].state, up[k], down[k])
         /\ \A i \in incoming :
              i.conn = k => IF i.waiting_for_auth THEN Proving(client[c].state, up[k], down[k])
                            ELSE Greeting(client[c].state, up[k], down[k])
         /\ \A p \in peers :
              p.conn = k => Serving(c, client[c].state, client[c].registered, up[k], down[k], p.svc)
    /\ k \in cut => \A p \in peers :
         p.conn = k /\ client[c].state = "running" => p.svc = Services(c)

Phases == \A c \in Clients : \A k \in Conns : client[c].conn = k => Phase(c, k)

\* The inductive invariant.
Inv == Shape /\ Tables /\ Locals /\ Ends /\ Owned /\ Phases

LEMMA Constants ==
    /\ \A c \in Clients : ServicesOf[c] \in Seq(Services(c)) /\ Len(ServicesOf[c]) \in Nat
    /\ NoConn \notin Conns /\ NoConn = 0
    /\ max_clients \in Nat /\ MAX_INCOMING \in Nat
    /\ InitialDelay \in Nat /\ MaxDelay \in Nat
    /\ LongestDelay \in Nat /\ InitialDelay <= LongestDelay
    /\ MaxFaults \in Nat
BY SessionsAssumption DEF NoConn, LongestDelay

\* The connections in use.
LEMMA EndsOf ==
    ASSUME Shape
    PROVE  /\ \A r \in backlog \cup incoming \cup peers : r.conn \in ServerEnds /\ r.conn \in Conns
           /\ \A k \in ServerEnds : \E r \in backlog \cup incoming \cup peers : r.conn = k
           /\ \A c \in Clients : client[c].conn # NoConn =>
                client[c].conn \in ClientEnds /\ client[c].conn \in Conns
           /\ \A k \in ClientEnds : \E c \in Clients : client[c].conn = k /\ k # NoConn
<1>1. \A r \in backlog \cup incoming \cup peers : r.conn \in Conns
  BY DEF Shape, Backlog, Incoming, Peers
<1>2. \A c \in Clients : client[c].conn \in Conns \cup {NoConn}
  BY DEF Shape, ClientStates
<1> QED
  BY <1>1, <1>2 DEF ServerEnds, ClientEnds, ConnsOf

-----------------------------------------------------------------------------
(***************************************************************************)
(* Messages.                                                               *)
(***************************************************************************)

LEMMA Appended ==
    ASSUME NEW d \in Seq(Replies), NEW m \in Replies
    PROVE  /\ Append(d, m) \in Seq(Replies) /\ Append(d, m) # <<>>
           /\ Quiet(d) => Single(Append(d, m), m)
           /\ m \in Unsolicited =>
                /\ Quiet(d) => Quiet(Append(d, m))
                /\ Follows(d) => Follows(Append(d, m))
                /\ \A a : Single(d, a) => Single(Append(d, m), a)
<1> DEFINE e == Append(d, m)
<1>1. /\ e \in Seq(Replies) /\ Len(e) = Len(d) + 1 /\ Len(d) \in Nat
      /\ \A i \in 1..Len(d) : e[i] = d[i]
      /\ e[Len(d) + 1] = m
  BY AppendProperties
<1> HIDE DEF e
<1>2. \A i \in 1..Len(e) : i \in 1..Len(d) \/ i = Len(d) + 1
  BY <1>1
<1>3. Len(d) + 1 \in 1..Len(e) /\ \A i \in 1..Len(d) : i \in 1..Len(e) /\ i # Len(d) + 1
  BY <1>1
<1>4. e # <<>>
  BY <1>1
<1>5. Quiet(d) => Single(e, m)
  BY <1>1, <1>2, <1>3 DEF Quiet, Single
<1>6. ASSUME m \in Unsolicited, Quiet(d) PROVE Quiet(e)
  BY <1>1, <1>2, <1>6 DEF Quiet
<1>7. ASSUME m \in Unsolicited, Follows(d) PROVE Follows(e)
  <2> SUFFICES ASSUME NEW j \in 2..Len(e) PROVE e[j] \in Unsolicited
    BY <1>4 DEF Follows
  <2>1. (j \in 2..Len(d) /\ j \in 1..Len(d)) \/ j = Len(d) + 1
    BY <1>1
  <2> QED
    BY <1>1, <1>7, <2>1 DEF Follows
<1>8. ASSUME m \in Unsolicited, NEW a, Single(d, a) PROVE Single(e, a)
  <2>1. PICK j \in 1..Len(d) : d[j] = a /\ \A i \in 1..Len(d) : i # j => d[i] \in Unsolicited
    BY <1>8 DEF Single
  <2>2. j \in 1..Len(e) /\ e[j] = a
    BY <1>1, <1>3, <2>1
  <2>3. \A i \in 1..Len(e) : i # j => e[i] \in Unsolicited
    BY <1>1, <1>2, <1>8, <2>1
  <2> QED
    BY <2>2, <2>3 DEF Single
<1>9. /\ e \in Seq(Replies) /\ e # <<>>
      /\ Quiet(d) => Single(e, m)
      /\ m \in Unsolicited =>
           /\ Quiet(d) => Quiet(e)
           /\ Follows(d) => Follows(e)
           /\ \A a : Single(d, a) => Single(e, a)
  BY <1>1, <1>4, <1>5, <1>6, <1>7, <1>8
<1> QED
  BY <1>9 DEF e

LEMMA Consumed ==
    ASSUME NEW d \in Seq(Replies), d # <<>>
    PROVE  /\ Tail(d) \in Seq(Replies)
           /\ Quiet(d) => Quiet(Tail(d))
           /\ Follows(d) => Quiet(Tail(d))
           /\ \A a : Single(d, a) => \/ Head(d) = a /\ Quiet(Tail(d))
                                     \/ Head(d) \in Unsolicited /\ Single(Tail(d), a)
<1> DEFINE e == Tail(d)
<1>1. /\ e \in Seq(Replies) /\ Len(e) = Len(d) - 1 /\ Len(d) \in Nat /\ Len(d) > 0
      /\ \A i \in 1..Len(e) : e[i] = d[i + 1]
      /\ Head(d) = d[1]
  BY HeadTailProperties
<1> HIDE DEF e
<1>2. \A i \in 1..Len(e) : i + 1 \in 1..Len(d) /\ i + 1 \in 2..Len(d) /\ i + 1 # 1
  BY <1>1
<1>3. Quiet(d) => Quiet(e)
  BY <1>1, <1>2 DEF Quiet
<1>4. Follows(d) => Quiet(e)
  BY <1>1, <1>2 DEF Quiet, Follows
<1>5. ASSUME NEW a, Single(d, a)
      PROVE  (Head(d) = a /\ Quiet(e)) \/ (Head(d) \in Unsolicited /\ Single(e, a))
  <2>1. PICK j \in 1..Len(d) : d[j] = a /\ \A i \in 1..Len(d) : i # j => d[i] \in Unsolicited
    BY <1>5 DEF Single
  <2>2. CASE j = 1
    <3>1. \A i \in 1..Len(e) : e[i] \in Unsolicited
      BY <1>1, <1>2, <2>1, <2>2
    <3>2. Head(d) = d[1] /\ d[1] = a
      BY <1>1, <2>1, <2>2
    <3>3. Quiet(e)
      BY <3>1 DEF Quiet
    <3> QED
      BY <3>2, <3>3, Zenon
  <2>3. CASE j # 1
    <3>1. j - 1 \in 1..Len(e) /\ (j - 1) + 1 = j
      BY <1>1, <2>3
    <3>2. e[j - 1] = a
      BY <1>1, <2>1, <3>1
    <3>3. \A i \in 1..Len(e) : i # j - 1 => i + 1 # j
      OBVIOUS
    <3>4. \A i \in 1..Len(e) : i # j - 1 => e[i] \in Unsolicited
      BY <1>1, <1>2, <2>1, <3>3
    <3>5. Head(d) \in Unsolicited
      BY <1>1, <2>1, <2>3
    <3> QED
      BY <3>1, <3>2, <3>4, <3>5 DEF Single
  <2> QED
    BY <2>2, <2>3
<1>6. /\ e \in Seq(Replies)
      /\ Quiet(d) => Quiet(e)
      /\ Follows(d) => Quiet(e)
      /\ \A a : Single(d, a) => \/ Head(d) = a /\ Quiet(e)
                                \/ Head(d) \in Unsolicited /\ Single(e, a)
  BY <1>1, <1>3, <1>4, <1>5
<1> QED
  BY <1>6 DEF e

\* The services registered one by one.
LEMMA Firsts ==
    ASSUME NEW c \in Clients
    PROVE  /\ FirstOf(c, 0) = {} /\ FirstOf(c, Len(ServicesOf[c])) = Services(c)
           /\ \A n \in Nat : FirstOf(c, n + 1) = FirstOf(c, n) \cup {ServicesOf[c][n + 1]}
           /\ \A n \in Nat : n < Len(ServicesOf[c]) => ServicesOf[c][n + 1] \in Requests
<1>1. ServicesOf[c] \in Seq(Services(c)) /\ Len(ServicesOf[c]) \in Nat
  BY Constants
<1>2. FirstOf(c, 0) = {}
  BY DEF FirstOf
<1>3. FirstOf(c, Len(ServicesOf[c])) = Services(c)
  BY <1>1 DEF FirstOf, Services
<1>4. \A n \in Nat : FirstOf(c, n + 1) = FirstOf(c, n) \cup {ServicesOf[c][n + 1]}
  <2> SUFFICES ASSUME NEW n \in Nat
               PROVE  FirstOf(c, n + 1) = FirstOf(c, n) \cup {ServicesOf[c][n + 1]}
    OBVIOUS
  <2>1. 1..(n + 1) = 1..n \cup {n + 1}
    OBVIOUS
  <2> QED
    BY <2>1 DEF FirstOf
<1>5. ASSUME NEW n \in Nat, n < Len(ServicesOf[c]) PROVE ServicesOf[c][n + 1] \in Requests
  <2>1. n + 1 \in 1..Len(ServicesOf[c])
    BY <1>1, <1>5
  <2>2. ServicesOf[c][n + 1] \in Services(c)
    BY <1>1, <2>1, ElementOfSeq
  <2> QED
    BY <2>2 DEF Requests
<1> QED
  BY <1>2, <1>3, <1>4, <1>5
-----------------------------------------------------------------------------
(***************************************************************************)
(* Types.  Every action changes at most one client and one connection.     *)
(***************************************************************************)

LEMMA ShapeOf ==
    ASSUME Shape
    PROVE  /\ \A c \in Clients : /\ client[c] \in ClientStates /\ client[c].conn \in Conns \cup {NoConn}
                                 /\ client[c].registered \in Nat /\ client[c].delay \in Nat
           /\ \A k \in Conns : up[k] \in Seq(Requests) /\ down[k] \in Seq(Replies)
BY DEF Shape, ClientStates

LEMMA ServerClosesShape ==
    ASSUME Shape, NEW k \in Conns, ServerCloses(k)
    PROVE  up' \in [Conns -> Seq(Requests)] /\ down' \in [Conns -> Seq(Replies)] /\ cut' \in SUBSET Conns
BY DEF Shape, ServerCloses

LEMMA ServerAnswersShape ==
    ASSUME Shape, NEW k \in Conns, NEW m \in Replies, ServerAnswers(k, m), up[k] # <<>>
    PROVE  up' \in [Conns -> Seq(Requests)] /\ down' \in [Conns -> Seq(Replies)] /\ cut' \in SUBSET Conns
<1>1. Append(down[k], m) \in Seq(Replies) /\ Tail(up[k]) \in Seq(Requests)
  BY ShapeOf
<1> QED
  BY <1>1 DEF Shape, ServerAnswers

LEMMA DelayRange ==
    ASSUME Locals, NEW c \in Clients
    PROVE  NextDelay(c) \in InitialDelay..LongestDelay
BY Constants DEF Locals, Local, NextDelay, Doubled, LongestDelay

LEMMA SessionEndsShape ==
    ASSUME Shape, Locals, NEW c \in Clients, client[c].conn # NoConn, SessionEnds(c)
    PROVE  /\ client' \in [Clients -> ClientStates]
           /\ down' \in [Conns -> Seq(Replies)] /\ cut' \in SUBSET Conns
           /\ client'[c].conn = NoConn /\ \A d \in Clients : d # c => client'[d] = client[d]
           /\ Locals'
<1> DEFINE v == IF client[c].state = "running" THEN InitialDelay ELSE client[c].delay
           e == [state |-> "sleep", conn |-> NoConn, registered |-> 0, delay |-> v]
<1>1. v \in InitialDelay..LongestDelay /\ v \in Nat
  BY Constants DEF Locals, Local
<1> HIDE DEF v
<1>2. e \in ClientStates
  BY <1>1 DEF ClientStates, States
<1>3. client' = [client EXCEPT ![c] = e]
  BY DEF SessionEnds, v
<1>4. client' \in [Clients -> ClientStates] /\ client'[c] = e
  BY <1>2, <1>3 DEF Shape
<1>5. \A d \in Clients : d # c => client'[d] = client[d]
  BY <1>3 DEF Shape
<1>6. Local(c)'
  BY <1>1, <1>4, Constants DEF Local
<1>7. \A d \in Clients : d # c => Local(d)'
  BY <1>5 DEF Locals, Local
<1>8. down' \in [Conns -> Seq(Replies)] /\ cut' \in SUBSET Conns
  <2>1. down' \in [Conns -> Seq(Replies)]
    <3>1. down' = [down EXCEPT ![client[c].conn] = <<>>] /\ <<>> \in Seq(Replies)
      BY DEF SessionEnds
    <3> QED
      BY <3>1 DEF Shape
  <2>2. cut' \in SUBSET cut
    BY Zenon DEF SessionEnds
  <2> QED
    BY <2>1, <2>2 DEF Shape
<1> QED
  BY <1>4, <1>5, <1>6, <1>7, <1>8 DEF Locals

LEMMA ClientMovesShape ==
    ASSUME Shape, Locals, NEW c \in Clients, NEW s \in {"auth", "register", "running"}, NEW n \in Nat,
           client[c].conn # NoConn, down[client[c].conn] # <<>>,
           n <= Len(ServicesOf[c]), s = "register" => n < Len(ServicesOf[c]),
           NEW ms \in Seq(Requests), ClientMoves(c, s, n, ms)
    PROVE  /\ client' \in [Clients -> ClientStates]
           /\ up' \in [Conns -> Seq(Requests)] /\ down' \in [Conns -> Seq(Replies)]
           /\ client'[c].conn = client[c].conn /\ client'[c].state = s /\ client'[c].registered = n
           /\ \A d \in Clients : d # c => client'[d] = client[d]
           /\ Locals'
<1> DEFINE e == [client[c] EXCEPT !.state = s, !.registered = n]
           k == client[c].conn
<1>1. /\ e \in ClientStates /\ e.conn = k /\ e.state = s /\ e.registered = n
      /\ e.delay = client[c].delay
  BY ShapeOf DEF ClientStates, States
<1>2. client' = [client EXCEPT ![c] = e]
  BY DEF ClientMoves, Shape, ClientStates
<1> HIDE DEF e
<1>3. client' \in [Clients -> ClientStates] /\ client'[c] = e
  BY <1>1, <1>2 DEF Shape
<1>4. \A d \in Clients : d # c => client'[d] = client[d]
  BY <1>2 DEF Shape
<1>5. Local(c)'
  BY <1>1, <1>3 DEF Local, Locals
<1>6. \A d \in Clients : d # c => Local(d)'
  BY <1>4 DEF Locals, Local
<1>7. up' \in [Conns -> Seq(Requests)]
  <2>1. k \in Conns
    BY ShapeOf
  <2>2. up[k] \o ms \in Seq(Requests)
    BY <2>1, ShapeOf, ConcatProperties
  <2> QED
    BY <2>2 DEF Shape, ClientMoves
<1>8. down' \in [Conns -> Seq(Replies)]
  <2>1. k \in Conns
    BY ShapeOf
  <2>2. Tail(down[k]) \in Seq(Replies)
    BY <2>1, ShapeOf
  <2> QED
    BY <2>2 DEF Shape, ClientMoves
<1> QED
  BY <1>1, <1>3, <1>4, <1>5, <1>6, <1>7, <1>8 DEF Locals
-----------------------------------------------------------------------------
(***************************************************************************)
(* A client and a connection that an action leaves alone.                  *)
(***************************************************************************)

\* The entries of connection k are still, at most, the ones there were.
NoNewEntry(k) ==
    /\ \A b \in backlog' : b.conn = k => b \in backlog
    /\ \A i \in incoming' : i.conn = k => i \in incoming
    /\ \A p \in peers' : p.conn = k => p \in peers

\* No entry is left.
NoEntry(k) ==
    /\ \A b \in backlog' : b.conn # k
    /\ \A i \in incoming' : i.conn # k
    /\ \A p \in peers' : p.conn # k

LEMMA Undisturbed ==
    ASSUME NEW c \in Clients, NEW k \in Conns, Phase(c, k),
           client'[c] = client[c], NoNewEntry(k),
           up'[k] = up[k], down'[k] = down[k], k \in cut' <=> k \in cut
    PROVE  Phase(c, k)'
<1>1. CASE k \notin cut'
  BY <1>1, Zenon DEF Phase, NoNewEntry
<1>2. CASE k \in cut'
  BY <1>2, Zenon DEF Phase, NoNewEntry
<1> QED
  BY <1>1, <1>2

LEMMA Gone == ASSUME NEW c, NEW k, NoEntry(k) PROVE Phase(c, k)'
BY DEF Phase, NoEntry

\* Clients other than the one on connection k.
LEMMA OthersUndisturbed ==
    ASSUME Shape, Phases, NEW k, UNCHANGED client,
           \A x \in Conns : x # k => /\ NoNewEntry(x) /\ up'[x] = up[x] /\ down'[x] = down[x]
                                     /\ x \in cut' <=> x \in cut,
           \A c \in Clients : client[c].conn = k => Phase(c, k)'
    PROVE  Phases'
<1> SUFFICES ASSUME NEW c \in Clients, NEW x \in Conns, client[c].conn = x PROVE Phase(c, x)'
  BY DEF Phases
<1>1. Phase(c, x)
  BY DEF Phases
<1>2. CASE x = k
  BY <1>2
<1>3. CASE x # k
  BY <1>1, <1>3, Undisturbed
<1> QED
  BY <1>2, <1>3

LEMMA ServerClosesPhases ==
    ASSUME Shape, Phases, NEW k \in Conns, UNCHANGED client, ServerCloses(k),
           \A x \in Conns : x # k => NoNewEntry(x), NoEntry(k)
    PROVE  Phases'
<1>1. \A x \in Conns : x # k => up'[x] = up[x] /\ down'[x] = down[x]
  BY DEF Shape, ServerCloses
<1>2. \A x \in Conns : x # k => (x \in cut' <=> x \in cut)
  BY Zenon DEF ServerCloses
<1>3. \A c \in Clients : Phase(c, k)'
  BY Gone
<1> QED
  BY <1>1, <1>2, <1>3, OthersUndisturbed

LEMMA ServerAnswersPhases ==
    ASSUME Shape, Phases, NEW k \in Conns, NEW m \in Replies, up[k] # <<>>,
           UNCHANGED client, ServerAnswers(k, m),
           \A x \in Conns : x # k => NoNewEntry(x),
           ASSUME NEW c \in Clients, client[c].conn = k, Phase(c, k),
                  up'[k] = Tail(up[k]), down'[k] = Append(down[k], m)
           PROVE  Phase(c, k)'
    PROVE  Phases'
<1>1. \A x \in Conns : x # k => up'[x] = up[x] /\ down'[x] = down[x]
  BY DEF Shape, ServerAnswers
<1>2. UNCHANGED cut
  BY DEF ServerAnswers
<1>3. ASSUME NEW c \in Clients, client[c].conn = k PROVE Phase(c, k)'
  <2>1. k \in ClientEnds
    BY <1>3, EndsOf, Constants
  <2>2. up'[k] = Tail(up[k]) /\ down'[k] = Append(down[k], m)
    BY <2>1 DEF ServerAnswers, Shape
  <2>3. Phase(c, k)
    BY <1>3 DEF Phases
  <2> QED
    BY <1>3, <2>2, <2>3
<1> QED
  BY <1>1, <1>2, <1>3, OthersUndisturbed

\* A client that leaves its connection.
LEMMA LeavesPhases ==
    ASSUME Shape, Ends, Phases, NEW c \in Clients, UNCHANGED server,
           client'[c].conn = NoConn, \A d \in Clients : d # c => client'[d] = client[d],
           \A x \in Conns : x # client[c].conn =>
               up'[x] = up[x] /\ down'[x] = down[x] /\ (x \in cut' <=> x \in cut)
    PROVE  Phases'
<1> SUFFICES ASSUME NEW d \in Clients, NEW x \in Conns, client'[d].conn = x PROVE Phase(d, x)'
  BY DEF Phases
<1>1. d # c /\ client'[d] = client[d]
  BY Constants
<1>2. x # client[c].conn
  BY <1>1, Constants DEF Ends
<1>3. Phase(d, x) /\ NoNewEntry(x)
  BY <1>1 DEF Phases, NoNewEntry, server
<1> QED
  BY <1>1, <1>2, <1>3, Undisturbed

LEMMA SessionEndsPhases ==
    ASSUME Shape, Locals, Ends, Phases, NEW c \in Clients, client[c].conn # NoConn,
           SessionEnds(c), UNCHANGED <<server, up>>
    PROVE  Phases'
<1>1. client'[c].conn = NoConn /\ \A d \in Clients : d # c => client'[d] = client[d]
  BY SessionEndsShape
<1>2. \A x \in Conns : x # client[c].conn => down'[x] = down[x]
  BY DEF Shape, SessionEnds
<1>3. \A x \in Conns : x # client[c].conn => (x \in cut' <=> x \in cut)
  BY Zenon DEF SessionEnds
<1> QED
  BY <1>1, <1>2, <1>3, LeavesPhases

\* Ends and owners when the server only loses entries and clients only leave.
LEMMA FewerEnds ==
    ASSUME Ends, Owned, backlog' \in SUBSET backlog, incoming' \in SUBSET incoming,
           peers' \in SUBSET peers,
           \A c \in Clients : client'[c].conn \in {client[c].conn, NoConn},
           \A r \in backlog \cup incoming \cup peers : r.conn # NoConn
    PROVE  Ends' /\ Owned'
<1>1. \A c, d \in Clients : client'[c].conn = client'[d].conn /\ client'[c].conn # NoConn => c = d
  BY DEF Ends
<1>2. Ends'
  BY <1>1 DEF Ends, Distinct, Apart
<1>3. Owned'
  <2> SUFFICES ASSUME NEW r \in backlog' \cup incoming' \cup peers', NEW c \in Clients,
                      client'[c].conn = r.conn
               PROVE  r.client = c
    BY DEF Owned
  <2>1. r \in backlog \cup incoming \cup peers /\ client[c].conn = r.conn
    OBVIOUS
  <2> QED
    BY <2>1 DEF Owned
<1> QED
  BY <1>2, <1>3
-----------------------------------------------------------------------------
(***************************************************************************)
(* The tables of the server.                                               *)
(***************************************************************************)

LEMMA FewerTables ==
    ASSUME Tables, backlog' \in SUBSET backlog, incoming' \in SUBSET incoming, peers' \in SUBSET peers
    PROVE  Tables'
<1>1. /\ IsFiniteSet(backlog') /\ IsFiniteSet(incoming') /\ IsFiniteSet(peers')
      /\ Cardinality(incoming') <= Cardinality(incoming) /\ Cardinality(peers') <= Cardinality(peers)
      /\ Cardinality(incoming) \in Nat /\ Cardinality(peers) \in Nat
      /\ Cardinality(incoming') \in Nat /\ Cardinality(peers') \in Nat
  BY FS_Subset, FS_CardinalityType DEF Tables
<1>2. Cardinality(incoming') <= MAX_INCOMING /\ Cardinality(peers') <= max_clients
  BY <1>1, Constants DEF Tables
<1>3. \A p, r \in peers' : p # r => (p.svc \cap r.svc) \subseteq Udp
  BY DEF Tables
<1> QED
  BY <1>1, <1>2, <1>3 DEF Tables

\* One entry takes the place of another.
LEMMA SwapOne ==
    ASSUME NEW S, IsFiniteSet(S), NEW r \in S, NEW e
    PROVE  LET T == (S \ {r}) \cup {e}
           IN  IsFiniteSet(T) /\ Cardinality(T) \in Nat /\ Cardinality(T) <= Cardinality(S)
<1>1. /\ IsFiniteSet(S \ {r}) /\ Cardinality(S \ {r}) = Cardinality(S) - 1
      /\ Cardinality(S) \in Nat
  BY FS_RemoveElement, FS_CardinalityType
<1>2. /\ IsFiniteSet((S \ {r}) \cup {e})
      /\ Cardinality((S \ {r}) \cup {e}) \in {Cardinality(S \ {r}), Cardinality(S \ {r}) + 1}
  BY <1>1, FS_AddElement
<1> QED
  BY <1>1, <1>2, FS_CardinalityType

LEMMA AddOne ==
    ASSUME NEW S, IsFiniteSet(S), NEW e
    PROVE  /\ IsFiniteSet(S \cup {e}) /\ Cardinality(S) \in Nat /\ Cardinality(S \cup {e}) \in Nat
           /\ Cardinality(S \cup {e}) <= Cardinality(S) + 1
<1>1. /\ IsFiniteSet(S \cup {e}) /\ Cardinality(S) \in Nat /\ Cardinality(S \cup {e}) \in Nat
      /\ Cardinality(S \cup {e}) \in {Cardinality(S), Cardinality(S) + 1}
  BY FS_AddElement, FS_CardinalityType
<1> QED
  BY <1>1

\* One fault less.
LEMMA FaultStep ==
    ASSUME Shape, faults > 0, faults' = faults - 1
    PROVE  faults' \in 0..MaxFaults
BY Constants DEF Shape

LEMMA SameLocals == ASSUME Locals, UNCHANGED client PROVE Locals'
BY DEF Locals, Local

LEMMA ConnSet == ASSUME Shape PROVE \A r \in backlog \cup incoming \cup peers : r.conn \in Conns /\ r.conn # NoConn
BY EndsOf, Constants

\* The server closes connection k and drops its entry.
LEMMA ClosesInv ==
    ASSUME Inv, NEW k \in Conns, ServerCloses(k), UNCHANGED client, faults' \in 0..MaxFaults,
           backlog' \in SUBSET backlog, incoming' \in SUBSET incoming, peers' \in SUBSET peers,
           NoEntry(k)
    PROVE  Inv'
<1>1. Shape'
  BY ServerClosesShape DEF Inv, Shape
<1>2. Tables' /\ Locals'
  BY FewerTables, SameLocals DEF Inv
<1>3. Ends' /\ Owned'
  BY FewerEnds, ConnSet DEF Inv
<1>4. \A x \in Conns : NoNewEntry(x)
  BY DEF NoNewEntry
<1>5. Phases'
  BY <1>4, ServerClosesPhases DEF Inv
<1> QED
  BY <1>1, <1>2, <1>3, <1>5 DEF Inv

\* The client leaves its connection, of its own or because it lost it.
LEMMA SessionEndsInv ==
    ASSUME Inv, NEW c \in Clients, client[c].conn # NoConn, SessionEnds(c),
           UNCHANGED <<server, up>>, faults' \in 0..MaxFaults
    PROVE  Inv'
<1>1. Shape' /\ Locals'
  BY SessionEndsShape DEF Inv, Shape, server
<1>2. \A d \in Clients : client'[d].conn \in {client[d].conn, NoConn}
  BY SessionEndsShape DEF Inv
<1>3. UNCHANGED <<backlog, incoming, peers>>
  BY DEF server
<1>4. Tables' /\ Ends' /\ Owned'
  BY <1>2, <1>3, FewerTables, FewerEnds, ConnSet DEF Inv
<1>5. Phases'
  BY SessionEndsPhases DEF Inv
<1> QED
  BY <1>1, <1>4, <1>5 DEF Inv
-----------------------------------------------------------------------------
(***************************************************************************)
(* The steps of the client.                                                *)
(***************************************************************************)

LEMMA ConnectInv == ASSUME Inv, NEW c \in Clients, Connect(c) PROVE Inv'
<1>1. PICK k \in Conns \ (ServerEnds \cup ClientEnds) :
          /\ client' = [client EXCEPT ![c] =
               [state |-> "hello", conn |-> k, registered |-> 0, delay |-> NextDelay(c)]]
          /\ backlog' = backlog \cup {[conn |-> k, client |-> c]}
          /\ up' = [up EXCEPT ![k] = <<"CLIENT_HELLO">>]
          /\ down' = [down EXCEPT ![k] = <<>>]
          /\ cut' = cut \ {k}
  BY DEF Connect
<1> DEFINE e == [state |-> "hello", conn |-> k, registered |-> 0, delay |-> NextDelay(c)]
           b == [conn |-> k, client |-> c]
<1>2. UNCHANGED <<incoming, peers, blocked, faults>>
  BY DEF Connect
<1>3. NextDelay(c) \in InitialDelay..LongestDelay /\ NextDelay(c) \in Nat
  BY DelayRange, Constants DEF Inv
<1>4. e \in ClientStates /\ b \in Backlog
  BY <1>3 DEF ClientStates, States, Backlog
<1>5. client'[c] = e /\ \A d \in Clients : d # c => client'[d] = client[d]
  BY <1>1 DEF Inv, Shape
<1>6. /\ k \in Conns /\ k # NoConn
      /\ \A r \in backlog \cup incoming \cup peers : r.conn # k
      /\ \A d \in Clients : client[d].conn # k
  BY EndsOf, Constants DEF Inv
<1>7. Shape'
  <2>1. client' \in [Clients -> ClientStates]
    BY <1>1, <1>4 DEF Inv, Shape
  <2>2. backlog' \in SUBSET Backlog
    BY <1>1, <1>4 DEF Inv, Shape
  <2>3. up' \in [Conns -> Seq(Requests)]
    <3>1. <<"CLIENT_HELLO">> \in Seq(Requests)
      BY DEF Requests
    <3> QED
      BY <1>1, <3>1 DEF Inv, Shape
  <2>4. down' \in [Conns -> Seq(Replies)] /\ cut' \in SUBSET Conns
    BY <1>1 DEF Inv, Shape
  <2> QED
    BY <1>2, <2>1, <2>2, <2>3, <2>4 DEF Inv, Shape
<1>8. Tables'
  <2>1. IsFiniteSet(backlog')
    BY <1>1, AddOne DEF Inv, Tables
  <2> QED
    BY <1>2, <2>1 DEF Inv, Tables
<1>9. Locals'
  <2>1. Local(c)'
    BY <1>3, <1>5, <1>6, Constants DEF Local
  <2>2. \A d \in Clients : d # c => Local(d)'
    BY <1>5 DEF Inv, Locals, Local
  <2> QED
    BY <2>1, <2>2 DEF Locals
<1>10. client'[c].conn = k /\ client'[c].state = "hello"
  BY <1>5
<1>11. \A r \in backlog' : r \in backlog \/ (r.conn = k /\ r.client = c)
  BY <1>1
<1>12. Ends'
  <2>1. Distinct(backlog')
    BY <1>1, <1>6 DEF Inv, Ends, Distinct
  <2>2. Apart(backlog', incoming') /\ Apart(backlog', peers')
    BY <1>2, <1>6, <1>11 DEF Inv, Ends, Apart
  <2>3. \A x, d \in Clients : client'[x].conn = client'[d].conn /\ client'[x].conn # NoConn => x = d
    BY <1>5, <1>6, <1>10 DEF Inv, Ends
  <2> QED
    BY <1>2, <2>1, <2>2, <2>3 DEF Inv, Ends
<1>13. Owned'
  BY <1>2, <1>5, <1>6, <1>10, <1>11 DEF Inv, Owned
<1>14. Phases'
  <2> SUFFICES ASSUME NEW d \in Clients, NEW x \in Conns, client'[d].conn = x PROVE Phase(d, x)'
    BY DEF Phases
  <2>1. CASE d = c
    <3>1. x = k /\ up'[k] = <<"CLIENT_HELLO">> /\ down'[k] = <<>> /\ k \notin cut'
      BY <1>1, <1>6, <1>10, <2>1 DEF Inv, Shape
    <3>2. Greeting(client'[c].state, up'[k], down'[k])
      BY <1>10, <3>1 DEF Greeting
    <3>3. \A r \in incoming' \cup peers' : r.conn # k
      BY <1>2, <1>6
    <3> QED
      BY <2>1, <3>1, <3>2, <3>3 DEF Phase
  <2>2. CASE d # c
    <3>1. client'[d] = client[d] /\ x # k
      BY <1>5, <1>6, <2>2
    <3>2. up'[x] = up[x] /\ down'[x] = down[x] /\ (x \in cut' <=> x \in cut)
      BY <1>1, <3>1 DEF Inv, Shape
    <3>3. NoNewEntry(x)
      BY <1>2, <1>11, <3>1 DEF NoNewEntry
    <3>4. Phase(d, x)
      BY <3>1 DEF Inv, Phases
    <3> QED
      BY <3>1, <3>2, <3>3, <3>4, Undisturbed
  <2> QED
    BY <2>1, <2>2
<1> QED
  BY <1>7, <1>8, <1>9, <1>12, <1>13, <1>14 DEF Inv

\* The client changes, and no connection does.
LEMMA ConnectFailsInv == ASSUME Inv, NEW c \in Clients, ConnectFails(c) PROVE Inv'
<1> DEFINE e == [client[c] EXCEPT !.state = "sleep", !.delay = NextDelay(c)]
<1>1. NextDelay(c) \in InitialDelay..LongestDelay /\ NextDelay(c) \in Nat
  BY DelayRange, Constants DEF Inv
<1>2. /\ e \in ClientStates /\ e.conn = client[c].conn /\ e.state = "sleep"
      /\ e.registered = client[c].registered /\ e.delay = NextDelay(c)
  BY <1>1, ShapeOf DEF Inv, ClientStates, States
<1>3. client' = [client EXCEPT ![c] = e]
  BY DEF ConnectFails, Inv, Shape, ClientStates
<1> HIDE DEF e
<1>4. client'[c] = e /\ \A d \in Clients : d # c => client'[d] = client[d]
  BY <1>3 DEF Inv, Shape
<1>5. client[c].conn = NoConn
  BY DEF ConnectFails, Inv, Locals, Local
<1>6. faults' \in 0..MaxFaults /\ UNCHANGED <<backlog, incoming, peers, up, down, cut>>
  BY FaultStep DEF ConnectFails, server, Inv
<1>7. Shape'
  BY <1>2, <1>3, <1>6 DEF Inv, Shape
<1>8. Locals'
  <2>1. Local(c)'
    BY <1>1, <1>2, <1>4, <1>5 DEF Local, Inv, Locals
  <2>2. \A d \in Clients : d # c => Local(d)'
    BY <1>4 DEF Inv, Locals, Local
  <2> QED
    BY <2>1, <2>2 DEF Locals
<1>9. \A d \in Clients : client'[d].conn \in {client[d].conn, NoConn}
  BY <1>2, <1>4
<1>10. Tables' /\ Ends' /\ Owned'
  BY <1>6, <1>9, FewerTables, FewerEnds, ConnSet DEF Inv
<1>11. Phases'
  <2>1. UNCHANGED server
    BY DEF ConnectFails
  <2> QED
    BY <1>2, <1>4, <1>5, <1>6, <2>1, LeavesPhases DEF Inv
<1> QED
  BY <1>7, <1>8, <1>10, <1>11 DEF Inv

LEMMA ClientRestartsInv == ASSUME Inv, NEW c \in Clients, ClientRestarts(c) PROVE Inv'
<1> DEFINE e == [state |-> "start", conn |-> NoConn, registered |-> 0, delay |-> InitialDelay]
           k == client[c].conn
<1>1. e \in ClientStates
  BY Constants DEF ClientStates, States
<1>2. client' = [client EXCEPT ![c] = e] /\ UNCHANGED <<server, up, cut>>
  BY DEF ClientRestarts
<1>3. client'[c] = e /\ \A d \in Clients : d # c => client'[d] = client[d]
  BY <1>2 DEF Inv, Shape
<1>4. faults' \in 0..MaxFaults /\ UNCHANGED <<backlog, incoming, peers>>
  BY FaultStep DEF ClientRestarts, server, Inv
<1>5. down' \in [Conns -> Seq(Replies)] /\ \A x \in Conns : x # k => down'[x] = down[x]
  <2>1. down' = down \/ down' = [down EXCEPT ![k] = <<>>]
    BY DEF ClientRestarts
  <2>2. <<>> \in Seq(Replies) /\ down \in [Conns -> Seq(Replies)]
    BY DEF Inv, Shape
  <2> HIDE DEF k
  <2> QED
    BY <2>1, <2>2
<1>6. Shape'
  BY <1>1, <1>2, <1>4, <1>5 DEF Inv, Shape
<1>7. Locals'
  <2>1. Local(c)'
    BY <1>3, Constants DEF Local
  <2>2. \A d \in Clients : d # c => Local(d)'
    BY <1>3 DEF Inv, Locals, Local
  <2> QED
    BY <2>1, <2>2 DEF Locals
<1>8. \A d \in Clients : client'[d].conn \in {client[d].conn, NoConn}
  BY <1>3
<1>9. Tables' /\ Ends' /\ Owned'
  BY <1>4, <1>8, FewerTables, FewerEnds, ConnSet DEF Inv
<1>10. Phases'
  <2>1. client'[c].conn = NoConn /\ UNCHANGED server
    BY <1>2, <1>3
  <2> QED
    BY <1>2, <1>3, <1>5, <2>1, LeavesPhases DEF Inv
<1> QED
  BY <1>6, <1>7, <1>9, <1>10 DEF Inv

\* The client reads a message and goes on with its connection.
LEMMA ClientMovesInv ==
    ASSUME Inv, NEW c \in Clients, NEW k \in Conns, client[c].conn = k, Arrived(down, k),
           NEW s \in {"auth", "register", "running"}, NEW n \in Nat,
           n <= Len(ServicesOf[c]), s = "register" => n < Len(ServicesOf[c]),
           NEW ms \in Seq(Requests), ClientMoves(c, s, n, ms), UNCHANGED <<server, faults>>,
           ASSUME client'[c].state = s, client'[c].registered = n, k \notin cut',
                  k \in ServerEnds => up'[k] = up[k] \o ms, down'[k] = Tail(down[k]),
                  UNCHANGED <<backlog, incoming, peers>>
           PROVE  Phase(c, k)'
    PROVE  Inv'
<1>1. k # NoConn /\ down[k] # <<>> /\ k \notin cut
  BY Constants DEF Arrived
<1>2. UNCHANGED <<backlog, incoming, peers, faults, cut>>
  BY DEF server, ClientMoves
<1>3. /\ client' \in [Clients -> ClientStates]
      /\ up' \in [Conns -> Seq(Requests)] /\ down' \in [Conns -> Seq(Replies)]
      /\ client'[c].conn = k /\ client'[c].state = s /\ client'[c].registered = n
      /\ \A d \in Clients : d # c => client'[d] = client[d]
      /\ Locals'
  BY <1>1, ClientMovesShape DEF Inv
<1>4. Shape'
  BY <1>2, <1>3 DEF Inv, Shape
<1>5. \A d \in Clients : client'[d].conn \in {client[d].conn, NoConn}
  BY <1>3
<1>6. Tables' /\ Ends' /\ Owned'
  BY <1>2, <1>5, FewerTables, FewerEnds, ConnSet DEF Inv
<1>7. Phases'
  <2> SUFFICES ASSUME NEW d \in Clients, NEW x \in Conns, client'[d].conn = x PROVE Phase(d, x)'
    BY DEF Phases
  <2>1. CASE d = c
    <3>1. k \in ServerEnds => up'[k] = up[k] \o ms
      BY DEF ClientMoves, Inv, Shape
    <3>2. down'[k] = Tail(down[k])
      BY DEF ClientMoves, Inv, Shape
    <3> QED
      BY <1>1, <1>2, <1>3, <2>1, <3>1, <3>2
  <2>2. CASE d # c
    <3>1. client'[d] = client[d] /\ x # k
      <4>1. client'[d] = client[d]
        BY <1>3, <2>2
      <4> QED
        BY <1>1, <2>2, <4>1 DEF Inv, Ends
    <3>2. up'[x] = up[x] /\ down'[x] = down[x]
      BY <3>1 DEF ClientMoves, Inv, Shape
    <3>3. NoNewEntry(x) /\ Phase(d, x)
      BY <1>2, <3>1 DEF NoNewEntry, Inv, Phases
    <3> QED
      BY <1>2, <3>1, <3>2, <3>3, Undisturbed
  <2> QED
    BY <2>1, <2>2
<1> QED
  BY <1>3, <1>4, <1>6, <1>7 DEF Inv

\* n services are confirmed and the server has opened just these.
LEMMA RegisterNextInv ==
    ASSUME Inv, NEW c \in Clients, NEW k \in Conns, client[c].conn = k, Arrived(down, k),
           NEW n \in Nat, n <= Len(ServicesOf[c]), RegisterNext(c, n), UNCHANGED <<server, faults>>,
           \A r \in backlog \cup incoming : r.conn # k,
           \A p \in peers : p.conn = k => up[k] = <<>> /\ p.svc = FirstOf(c, n) /\ Quiet(Tail(down[k]))
    PROVE  Inv'
<1>1. \A p \in peers : p.conn = k => k \in ServerEnds
  BY EndsOf DEF Inv
<1>2. CASE n = Len(ServicesOf[c])
  <2>1. ClientMoves(c, "running", n, <<>>)
    BY <1>2 DEF RegisterNext
  <2>2. ASSUME client'[c].state = "running", k \notin cut',
               k \in ServerEnds => up'[k] = up[k] \o <<>>, down'[k] = Tail(down[k]),
               UNCHANGED <<backlog, incoming, peers>>
        PROVE  Phase(c, k)'
    <3>1. ASSUME NEW p \in peers, p.conn = k
          PROVE  Serving(c, client'[c].state, client'[c].registered, up'[k], down'[k], p.svc)
      <4>1. up[k] \in Seq(Requests)
        BY ShapeOf DEF Inv
      <4>2. up'[k] = <<>>
        BY <1>1, <2>2, <3>1, <4>1, ConcatEmptySeq
      <4>3. p.svc = Services(c) /\ Quiet(down'[k])
        BY <1>2, <2>2, <3>1, Firsts
      <4> QED
        BY <2>2, <4>2, <4>3 DEF Serving
    <3> QED
      BY <2>2, <3>1 DEF Phase
  <2>3. <<>> \in Seq(Requests)
    OBVIOUS
  <2> QED
    BY <2>1, <2>2, <2>3, ClientMovesInv
<1>3. CASE n # Len(ServicesOf[c])
  <2> DEFINE ms == <<ServicesOf[c][n + 1]>>
  <2>1. ClientMoves(c, "register", n, ms)
    BY <1>3 DEF RegisterNext
  <2>2. n < Len(ServicesOf[c])
    BY <1>3, Constants
  <2>3. ms \in Seq(Requests)
    BY <2>2, Firsts
  <2>4. ASSUME client'[c].state = "register", client'[c].registered = n, k \notin cut',
               k \in ServerEnds => up'[k] = up[k] \o ms, down'[k] = Tail(down[k]),
               UNCHANGED <<backlog, incoming, peers>>
        PROVE  Phase(c, k)'
    <3>1. ASSUME NEW p \in peers, p.conn = k
          PROVE  Serving(c, client'[c].state, client'[c].registered, up'[k], down'[k], p.svc)
      <4>1. up'[k] = ms
        <5>1. up'[k] = <<>> \o ms
          BY <1>1, <2>4, <3>1
        <5> HIDE DEF ms
        <5> QED
          BY <2>3, <5>1, ConcatEmptySeq
      <4>2. p.svc = FirstOf(c, n) /\ Quiet(down'[k])
        BY <2>4, <3>1
      <4> QED
        BY <2>4, <4>1, <4>2 DEF Serving
    <3> QED
      BY <2>4, <3>1 DEF Phase
  <2> HIDE DEF ms
  <2> QED
    BY <2>1, <2>2, <2>3, <2>4, ClientMovesInv
<1> QED
  BY <1>2, <1>3

LEMMA ClientReceivesInv == ASSUME Inv, NEW c \in Clients, ClientReceives(c) PROVE Inv'
<1>0. PICK k \in Conns : k = client[c].conn
  BY ShapeOf DEF ClientReceives, Inv
<1> DEFINE d == down[k]
<1>1. k # NoConn /\ Arrived(down, k) /\ UNCHANGED <<server, faults>>
  BY <1>0 DEF ClientReceives
<1>2. d \in Seq(Replies) /\ d # <<>> /\ up[k] \in Seq(Requests) /\ k \notin cut
  BY <1>1, ShapeOf DEF Inv, Arrived
<1>3. /\ \A b \in backlog : b.conn = k => Greeting(client[c].state, up[k], d)
      /\ \A i \in incoming : i.conn = k => IF i.waiting_for_auth THEN Proving(client[c].state, up[k], d)
                                           ELSE Greeting(client[c].state, up[k], d)
      /\ \A p \in peers : p.conn = k =>
           Serving(c, client[c].state, client[c].registered, up[k], d, p.svc)
  <2>1. Phase(c, k)
    BY <1>0 DEF Inv, Phases
  <2> QED
    BY <1>2, <2>1 DEF Phase
<1>4. client[c].registered \in Nat
  BY ShapeOf DEF Inv
<1>5. \A b \in backlog : b.conn # k
  BY <1>2, <1>3 DEF Greeting
<1>6. client[c].state # "hello" => \A i \in incoming : i.conn # k
  BY <1>2, <1>3 DEF Greeting, Proving
<1>7. \A r \in backlog \cup incoming \cup peers : r.conn = k => k \in ServerEnds
  BY EndsOf DEF Inv
<1> HIDE DEF d
<1>8. CASE client[c].state = "hello" /\ ClientMoves(c, "auth", 0, <<"CLIENT_AUTH">>)
  <2>1. ASSUME client'[c].state = "auth", k \notin cut',
               k \in ServerEnds => up'[k] = up[k] \o <<"CLIENT_AUTH">>, down'[k] = Tail(down[k]),
               UNCHANGED <<backlog, incoming, peers>>
        PROVE  Phase(c, k)'
    <3>1. \A p \in peers : p.conn # k
      BY <1>3, <1>8 DEF Serving
    <3>2. ASSUME NEW i \in incoming, i.conn = k
          PROVE  i.waiting_for_auth /\ Proving(client'[c].state, up'[k], down'[k])
      <4>1. i.waiting_for_auth /\ up[k] = <<>> /\ d = <<"SERVER_HELLO">>
        BY <1>2, <1>3, <1>8, <3>2 DEF Proving, Greeting
      <4>2. up'[k] = <<"CLIENT_AUTH">> /\ down'[k] = <<>>
        BY <1>7, <2>1, <3>2, <4>1 DEF d
      <4> QED
        BY <2>1, <4>1, <4>2 DEF Proving
    <3> QED
      BY <1>5, <2>1, <3>1, <3>2 DEF Phase
  <2>2. <<"CLIENT_AUTH">> \in Seq(Requests)
    BY DEF Requests
  <2>3. 0 \in Nat /\ 0 <= Len(ServicesOf[c])
    BY Constants
  <2> QED
    BY <1>1, <1>8, <2>1, <2>2, <2>3, <1>0, ClientMovesInv
<1>9. CASE client[c].state = "auth" /\ RegisterNext(c, 0)
  <2>1. ASSUME NEW p \in peers, p.conn = k
        PROVE  up[k] = <<>> /\ p.svc = FirstOf(c, 0) /\ Quiet(Tail(d))
    <3>1. up[k] = <<>> /\ p.svc = {} /\ Follows(d)
      BY <1>3, <1>9, <2>1 DEF Serving
    <3> QED
      BY <1>2, <3>1, Consumed, Firsts
  <2>2. 0 \in Nat /\ 0 <= Len(ServicesOf[c])
    BY Constants
  <2>3. \A r \in backlog \cup incoming : r.conn # k
    BY <1>5, <1>6, <1>9
  <2> QED
    BY <1>1, <1>9, <2>1, <2>2, <2>3, <1>0, RegisterNextInv DEF d
<1>10. CASE client[c].state = "register" /\ Head(d) = "NOTICE"
            /\ ClientMoves(c, "register", client[c].registered, <<>>)
  <2> DEFINE n == client[c].registered
  <2>1. n < Len(ServicesOf[c]) /\ n <= Len(ServicesOf[c]) /\ <<>> \in Seq(Requests)
    BY <1>4, <1>10, Constants DEF Inv, Locals, Local
  <2>2. ASSUME client'[c].state = "register", client'[c].registered = n, k \notin cut',
               k \in ServerEnds => up'[k] = up[k] \o <<>>, down'[k] = Tail(down[k]),
               UNCHANGED <<backlog, incoming, peers>>
        PROVE  Phase(c, k)'
    <3>1. ASSUME NEW p \in peers, p.conn = k
          PROVE  Serving(c, "register", n, up'[k], down'[k], p.svc)
      <4>1. up'[k] = up[k] /\ down'[k] = Tail(d)
        BY <1>2, <1>7, <2>2, <3>1, ConcatEmptySeq DEF d
      <4>2. Serving(c, "register", n, up[k], d, p.svc)
        BY <1>3, <1>10, <3>1
      <4>3. /\ Quiet(d) => Quiet(Tail(d))
            /\ Single(d, "REGISTER_OK") => Single(Tail(d), "REGISTER_OK")
            /\ Single(d, "REGISTER_FAILED") => Single(Tail(d), "REGISTER_FAILED")
        BY <1>2, <1>10, Consumed
      <4> QED
        BY <4>1, <4>2, <4>3 DEF Serving
    <3> QED
      BY <1>5, <1>6, <1>10, <2>2, <3>1 DEF Phase
  <2> HIDE DEF n
  <2>3. ClientMoves(c, "register", n, <<>>) /\ n \in Nat
    BY <1>4, <1>10 DEF n
  <2> QED
    BY <1>1, <2>1, <2>2, <2>3, <1>0, ClientMovesInv
<1>11. CASE client[c].state = "register" /\ Head(d) = "REGISTER_OK"
            /\ RegisterNext(c, client[c].registered + 1)
  <2> DEFINE n == client[c].registered + 1
  <2>1. n \in Nat /\ n <= Len(ServicesOf[c])
    BY <1>4, <1>11, Constants DEF Inv, Locals, Local
  <2>2. ASSUME NEW p \in peers, p.conn = k
        PROVE  up[k] = <<>> /\ p.svc = FirstOf(c, n) /\ Quiet(Tail(d))
    <3>1. Serving(c, "register", client[c].registered, up[k], d, p.svc)
      BY <1>3, <1>11, <2>2
    <3>2. ~Quiet(d)
      <4>1. Head(d) = d[1] /\ 1 \in 1..Len(d)
        BY <1>2
      <4> QED
        BY <1>11, <4>1 DEF Quiet, Unsolicited
    <3>3. ~Single(d, "REGISTER_FAILED") /\ (Single(d, "REGISTER_OK") => Quiet(Tail(d)))
      BY <1>2, <1>11, Consumed DEF Unsolicited
    <3> QED
      BY <3>1, <3>2, <3>3 DEF Serving
  <2>3. \A r \in backlog \cup incoming : r.conn # k
    BY <1>5, <1>6, <1>11
  <2> HIDE DEF n
  <2>4. RegisterNext(c, n)
    BY <1>11 DEF n
  <2> QED
    BY <1>1, <2>1, <2>2, <2>3, <2>4, <1>0, RegisterNextInv DEF d
<1>12. CASE SessionEnds(c) /\ UNCHANGED up
  <2>1. faults' \in 0..MaxFaults
    BY <1>1 DEF Inv, Shape
  <2> QED
    BY <1>1, <1>12, <2>1, <1>0, SessionEndsInv
<1>13. CASE client[c].state = "running" /\ ClientMoves(c, "running", client[c].registered, <<>>)
  <2> DEFINE n == client[c].registered
  <2>1. n <= Len(ServicesOf[c]) /\ <<>> \in Seq(Requests)
    BY DEF Inv, Locals, Local
  <2>2. ASSUME client'[c].state = "running", k \notin cut',
               k \in ServerEnds => up'[k] = up[k] \o <<>>, down'[k] = Tail(down[k]),
               UNCHANGED <<backlog, incoming, peers>>
        PROVE  Phase(c, k)'
    <3>1. ASSUME NEW p \in peers, p.conn = k
          PROVE  Serving(c, "running", client'[c].registered, up'[k], down'[k], p.svc)
      <4>1. up'[k] = up[k] /\ down'[k] = Tail(d)
        BY <1>2, <1>7, <2>2, <3>1, ConcatEmptySeq DEF d
      <4>2. up[k] = <<>> /\ p.svc = Services(c) /\ Quiet(d)
        BY <1>3, <1>13, <3>1 DEF Serving
      <4>3. Quiet(Tail(d))
        BY <1>2, <4>2, Consumed
      <4> QED
        BY <4>1, <4>2, <4>3 DEF Serving
    <3> QED
      BY <1>5, <1>6, <1>13, <2>2, <3>1 DEF Phase
  <2> HIDE DEF n
  <2>3. ClientMoves(c, "running", n, <<>>) /\ n \in Nat
    BY <1>4, <1>13 DEF n
  <2> QED
    BY <1>1, <2>1, <2>2, <2>3, <1>0, ClientMovesInv
<1> QED
  BY <1>0, <1>8, <1>9, <1>10, <1>11, <1>12, <1>13 DEF ClientReceives, Answered, d
-----------------------------------------------------------------------------
(***************************************************************************)
(* The steps of the server.                                                *)
(***************************************************************************)

\* The entry of a connection leaves its table.
LEMMA Dropped ==
    ASSUME Ends
    PROVE  /\ \A b \in backlog : backlog' = backlog \ {b} /\ UNCHANGED <<incoming, peers>>
                                   => NoEntry(b.conn)
           /\ \A i \in incoming : incoming' = incoming \ {i} /\ UNCHANGED <<backlog, peers>>
                                   => NoEntry(i.conn)
           /\ \A p \in peers : peers' = peers \ {p} /\ UNCHANGED <<backlog, incoming>>
                                   => NoEntry(p.conn)
BY DEF Ends, Distinct, Apart, NoEntry

LEMMA AcceptInv == ASSUME Inv, NEW b \in backlog, Accept(b) PROVE Inv'
<1>1. b.conn \in Conns /\ b.conn # NoConn /\ b.client \in Clients
  BY ConnSet DEF Inv, Shape, Backlog
<1>2. backlog' = backlog \ {b} /\ UNCHANGED <<client, peers, blocked, faults>>
  BY DEF Accept
<1>3. CASE ServerCloses(b.conn) /\ UNCHANGED incoming
  <2>1. NoEntry(b.conn)
    BY <1>2, <1>3, Dropped DEF Inv
  <2>2. backlog' \in SUBSET backlog /\ incoming' \in SUBSET incoming /\ peers' \in SUBSET peers
    BY <1>2, <1>3
  <2>3. faults' \in 0..MaxFaults
    BY <1>2 DEF Inv, Shape
  <2> QED
    BY <1>1, <1>2, <1>3, <2>1, <2>2, <2>3, ClosesInv
<1>4. CASE /\ Cardinality(incoming) # MAX_INCOMING /\ UNCHANGED <<up, down, cut>>
           /\ incoming' = incoming \cup
                {[conn |-> b.conn, client |-> b.client, waiting_for_auth |-> FALSE]}
  <2> DEFINE i == [conn |-> b.conn, client |-> b.client, waiting_for_auth |-> FALSE]
  <2>1. i \in Incoming /\ i.conn = b.conn /\ i.client = b.client /\ ~i.waiting_for_auth
    BY <1>1 DEF Incoming
  <2>2. incoming' = incoming \cup {i}
    BY <1>4
  <2> HIDE DEF i
  <2>3. Shape'
    BY <1>2, <1>4, <2>1, <2>2 DEF Inv, Shape
  <2>4. Tables'
    <3>1. IsFiniteSet(backlog') /\ Cardinality(incoming) \in Nat
      BY <1>2, FS_Subset, FS_CardinalityType DEF Inv, Tables
    <3>2. /\ IsFiniteSet(incoming') /\ Cardinality(incoming') \in Nat
          /\ Cardinality(incoming') <= Cardinality(incoming) + 1
      BY <2>2, AddOne DEF Inv, Tables
    <3>3. Cardinality(incoming') <= MAX_INCOMING
      BY <1>4, <3>1, <3>2, Constants DEF Inv, Tables
    <3> QED
      BY <1>2, <3>1, <3>2, <3>3 DEF Inv, Tables
  <2>5. Locals'
    BY <1>2, SameLocals DEF Inv
  <2>6. Ends'
    <3>1. Distinct(backlog') /\ Distinct(incoming')
      BY <1>2, <2>1, <2>2 DEF Inv, Ends, Distinct, Apart
    <3>2. Apart(backlog', incoming') /\ Apart(backlog', peers') /\ Apart(incoming', peers')
      BY <1>2, <2>1, <2>2 DEF Inv, Ends, Distinct, Apart
    <3> QED
      BY <1>2, <3>1, <3>2 DEF Inv, Ends
  <2>7. Owned'
    BY <1>2, <2>1, <2>2 DEF Inv, Owned
  <2>8. Phases'
    <3>1. \A x \in Conns : x # b.conn => NoNewEntry(x)
      BY <1>2, <2>1, <2>2 DEF NoNewEntry
    <3>2. ASSUME NEW c \in Clients, client[c].conn = b.conn PROVE Phase(c, b.conn)'
      <4>1. Phase(c, b.conn)
        BY <1>1, <3>2 DEF Inv, Phases
      <4>2. b.conn \notin cut => Greeting(client[c].state, up[b.conn], down[b.conn])
        BY <4>1 DEF Phase
      <4>3. /\ \A r \in backlog' \cup peers' : r.conn # b.conn
            /\ \A r \in incoming' : r.conn = b.conn => r = i
        BY <1>2, <2>2 DEF Inv, Ends, Distinct, Apart
      <4> QED
        BY <1>2, <1>4, <2>1, <4>2, <4>3 DEF Phase
    <3> QED
      BY <1>2, <1>4, <3>1, <3>2, OthersUndisturbed DEF Inv
  <2> QED
    BY <2>3, <2>4, <2>5, <2>6, <2>7, <2>8 DEF Inv
<1> QED
  BY <1>3, <1>4 DEF Accept

\* An incoming connection is closed.
LEMMA IncomingClosedInv ==
    ASSUME Inv, NEW i \in incoming, incoming' = incoming \ {i}, ServerCloses(i.conn),
           UNCHANGED <<client, backlog, peers>>, faults' \in 0..MaxFaults
    PROVE  Inv'
<1>1. i.conn \in Conns
  BY ConnSet DEF Inv
<1>2. NoEntry(i.conn)
  BY Dropped DEF Inv
<1>3. backlog' \in SUBSET backlog /\ incoming' \in SUBSET incoming /\ peers' \in SUBSET peers
  OBVIOUS
<1> QED
  BY <1>1, <1>2, <1>3, ClosesInv

LEMMA ServerHelloInv == ASSUME Inv, NEW i \in incoming, ServerHello(i) PROVE Inv'
<1>1. i \in Incoming /\ i.conn \in Conns /\ i.conn # NoConn /\ i.client \in Clients
  BY ConnSet DEF Inv, Shape, Incoming
<1>2. /\ UNCHANGED <<client, backlog, peers, faults>>
      /\ ~i.waiting_for_auth /\ i.conn \notin cut /\ up[i.conn] # <<>>
  BY DEF ServerHello, Arrived
<1>3. CASE incoming' = incoming \ {i} /\ ServerCloses(i.conn)
  <2>1. faults' \in 0..MaxFaults
    BY <1>2 DEF Inv, Shape
  <2> QED
    BY <1>2, <1>3, <2>1, IncomingClosedInv
<1>4. CASE /\ incoming' = (incoming \ {i}) \cup {[i EXCEPT !.waiting_for_auth = TRUE]}
           /\ ServerAnswers(i.conn, "SERVER_HELLO")
  <2> DEFINE e == [i EXCEPT !.waiting_for_auth = TRUE]
             k == i.conn
  <2>1. e \in Incoming /\ e.conn = k /\ e.client = i.client /\ e.waiting_for_auth
    BY <1>1 DEF Incoming
  <2>2. incoming' = (incoming \ {i}) \cup {e}
    BY <1>4
  <2> HIDE DEF e
  <2>3. "SERVER_HELLO" \in Replies
    BY DEF Replies
  <2>4. Shape'
    <3>1. incoming' \in SUBSET Incoming
      BY <2>1, <2>2 DEF Inv, Shape
    <3>2. up' \in [Conns -> Seq(Requests)] /\ down' \in [Conns -> Seq(Replies)] /\ cut' \in SUBSET Conns
      BY <1>1, <1>2, <1>4, <2>3, ServerAnswersShape DEF Inv
    <3> QED
      BY <1>2, <3>1, <3>2 DEF Inv, Shape
  <2>5. Tables'
    <3>1. /\ IsFiniteSet(incoming') /\ Cardinality(incoming') \in Nat
          /\ Cardinality(incoming') <= Cardinality(incoming) /\ Cardinality(incoming) \in Nat
      BY <2>2, SwapOne, FS_CardinalityType DEF Inv, Tables
    <3>2. Cardinality(incoming') <= MAX_INCOMING
      BY <3>1, Constants DEF Inv, Tables
    <3> QED
      BY <1>2, <3>1, <3>2 DEF Inv, Tables
  <2>6. Locals'
    BY <1>2, SameLocals DEF Inv
  <2>7. Ends'
    <3>1. Distinct(incoming') /\ Apart(backlog', incoming') /\ Apart(incoming', peers')
      BY <1>2, <2>1, <2>2 DEF Inv, Ends, Distinct, Apart
    <3> QED
      BY <1>2, <3>1 DEF Inv, Ends
  <2>8. Owned'
    BY <1>2, <2>1, <2>2 DEF Inv, Owned
  <2>9. Phases'
    <3>1. \A x \in Conns : x # k => NoNewEntry(x)
      BY <1>2, <2>1, <2>2 DEF NoNewEntry
    <3>2. ASSUME NEW c \in Clients, client[c].conn = k, Phase(c, k),
                 up'[k] = Tail(up[k]), down'[k] = Append(down[k], "SERVER_HELLO")
          PROVE  Phase(c, k)'
      <4>1. Greeting(client[c].state, up[k], down[k])
        BY <1>2, <3>2 DEF Phase
      <4>2. Proving(client'[c].state, up'[k], down'[k])
        BY <1>2, <3>2, <4>1 DEF Greeting, Proving
      <4>3. /\ \A r \in backlog' \cup peers' : r.conn # k
            /\ \A r \in incoming' : r.conn = k => r = e
        BY <1>2, <2>2 DEF Inv, Ends, Distinct, Apart
      <4>4. k \notin cut'
        BY <1>2, <1>4 DEF ServerAnswers
      <4> QED
        BY <2>1, <4>2, <4>3, <4>4 DEF Phase
    <3> HIDE DEF k
    <3>3. k \in Conns /\ up[k] # <<>> /\ ServerAnswers(k, "SERVER_HELLO") /\ UNCHANGED client
      BY <1>1, <1>2, <1>4 DEF k
    <3> QED
      BY <2>3, <3>1, <3>2, <3>3, ServerAnswersPhases DEF Inv
  <2> QED
    BY <2>4, <2>5, <2>6, <2>7, <2>8, <2>9 DEF Inv
<1> QED
  BY <1>3, <1>4 DEF ServerHello, ct_handshake_server_begin

LEMMA ServerAuthInv == ASSUME Inv, NEW i \in incoming, ServerAuth(i) PROVE Inv'
<1>1. i \in Incoming /\ i.conn \in Conns /\ i.conn # NoConn /\ i.client \in Clients
  BY ConnSet DEF Inv, Shape, Incoming
<1>2. /\ UNCHANGED <<client, backlog, faults>> /\ incoming' = incoming \ {i}
      /\ i.waiting_for_auth /\ i.conn \notin cut /\ up[i.conn] # <<>>
  BY DEF ServerAuth, Arrived
<1>3. CASE ServerCloses(i.conn) /\ UNCHANGED peers
  <2>1. faults' \in 0..MaxFaults
    BY <1>2 DEF Inv, Shape
  <2> QED
    BY <1>2, <1>3, <2>1, IncomingClosedInv
<1>4. CASE /\ SlotFree
           /\ peers' = peers \cup {[conn |-> i.conn, client |-> i.client, svc |-> {}]}
           /\ ServerAnswers(i.conn, "AUTH_OK")
  <2> DEFINE e == [conn |-> i.conn, client |-> i.client, svc |-> {}]
             k == i.conn
  <2>1. e \in Peers /\ e.conn = k /\ e.client = i.client /\ e.svc = {}
    BY <1>1 DEF Peers
  <2>2. peers' = peers \cup {e}
    BY <1>4
  <2> HIDE DEF e
  <2>3. "AUTH_OK" \in Replies
    BY DEF Replies
  <2>4. Shape'
    <3>1. incoming' \in SUBSET Incoming /\ peers' \in SUBSET Peers
      BY <1>2, <2>1, <2>2 DEF Inv, Shape
    <3>2. up' \in [Conns -> Seq(Requests)] /\ down' \in [Conns -> Seq(Replies)] /\ cut' \in SUBSET Conns
      BY <1>1, <1>2, <1>4, <2>3, ServerAnswersShape DEF Inv
    <3> QED
      BY <1>2, <3>1, <3>2 DEF Inv, Shape
  <2>5. Tables'
    <3>1. /\ IsFiniteSet(incoming') /\ Cardinality(incoming') \in Nat
          /\ Cardinality(incoming') <= Cardinality(incoming) /\ Cardinality(incoming) \in Nat
      BY <1>2, FS_Subset, FS_CardinalityType DEF Inv, Tables
    <3>2. /\ IsFiniteSet(peers') /\ Cardinality(peers) \in Nat /\ Cardinality(peers') \in Nat
          /\ Cardinality(peers') <= Cardinality(peers) + 1
      BY <2>2, AddOne DEF Inv, Tables
    <3>3. Cardinality(incoming') <= MAX_INCOMING /\ Cardinality(peers') <= max_clients
      BY <1>4, <3>1, <3>2, Constants DEF Inv, Tables, SlotFree
    <3>4. \A p, r \in peers' : p # r => (p.svc \cap r.svc) \subseteq Udp
      BY <2>1, <2>2 DEF Inv, Tables
    <3> QED
      BY <1>2, <3>1, <3>2, <3>3, <3>4 DEF Inv, Tables
  <2>6. Locals'
    BY <1>2, SameLocals DEF Inv
  <2>7. Ends'
    <3>1. Distinct(incoming') /\ Distinct(peers')
      BY <1>2, <2>1, <2>2 DEF Inv, Ends, Distinct, Apart
    <3>2. Apart(backlog', incoming') /\ Apart(incoming', peers') /\ Apart(backlog', peers')
      BY <1>2, <2>1, <2>2 DEF Inv, Ends, Distinct, Apart
    <3> QED
      BY <1>2, <3>1, <3>2 DEF Inv, Ends
  <2>8. Owned'
    BY <1>2, <2>1, <2>2 DEF Inv, Owned
  <2>9. Phases'
    <3>1. \A x \in Conns : x # k => NoNewEntry(x)
      BY <1>2, <2>1, <2>2 DEF NoNewEntry
    <3>2. ASSUME NEW c \in Clients, client[c].conn = k, Phase(c, k),
                 up'[k] = Tail(up[k]), down'[k] = Append(down[k], "AUTH_OK")
          PROVE  Phase(c, k)'
      <4>1. Proving(client[c].state, up[k], down[k])
        BY <1>2, <3>2 DEF Phase
      <4>2. client[c].state = "auth" /\ up[k] = <<"CLIENT_AUTH">> /\ down[k] = <<>>
        BY <1>2, <4>1 DEF Proving
      <4>3. client'[c].state = "auth" /\ up'[k] = <<>> /\ down'[k] = <<"AUTH_OK">>
        BY <1>2, <3>2, <4>2
      <4>4. Follows(<<"AUTH_OK">>)
        BY DEF Follows
      <4>5. Serving(c, client'[c].state, client'[c].registered, up'[k], down'[k], e.svc)
        BY <2>1, <4>3, <4>4 DEF Serving
      <4>6. /\ \A r \in backlog' \cup incoming' : r.conn # k
            /\ \A r \in peers' : r.conn = k => r = e
        BY <1>2, <2>2 DEF Inv, Ends, Distinct, Apart
      <4>7. k \notin cut'
        BY <1>2, <1>4 DEF ServerAnswers
      <4> QED
        BY <4>5, <4>6, <4>7 DEF Phase
    <3> HIDE DEF k
    <3>3. k \in Conns /\ up[k] # <<>> /\ ServerAnswers(k, "AUTH_OK") /\ UNCHANGED client
      BY <1>1, <1>2, <1>4 DEF k
    <3> QED
      BY <2>3, <3>1, <3>2, <3>3, ServerAnswersPhases DEF Inv
  <2> QED
    BY <2>4, <2>5, <2>6, <2>7, <2>8, <2>9 DEF Inv
<1> QED
  BY <1>3, <1>4 DEF ServerAuth

LEMMA PeerClosedInv ==
    ASSUME Inv, NEW p \in peers, peer_close(p),
           UNCHANGED <<client, backlog, incoming>>, faults' \in 0..MaxFaults
    PROVE  Inv'
<1>1. p.conn \in Conns
  BY ConnSet DEF Inv
<1>2. NoEntry(p.conn)
  BY Dropped DEF Inv, peer_close
<1>3. backlog' \in SUBSET backlog /\ incoming' \in SUBSET incoming /\ peers' \in SUBSET peers
  BY DEF peer_close
<1> QED
  BY <1>1, <1>2, <1>3, ClosesInv DEF peer_close

\* The answer m to the request of peer p, which becomes e.
LEMMA AnswerInv ==
    ASSUME Inv, NEW p \in peers, NEW e \in Peers, NEW m \in {"REGISTER_OK", "REGISTER_FAILED"},
           e.conn = p.conn, e.client = p.client,
           peers' = (peers \ {p}) \cup {e}, ServerAnswers(p.conn, m), Arrived(up, p.conn),
           UNCHANGED <<client, backlog, incoming, faults>>,
           \A r \in peers \ {p} : (e.svc \cap r.svc) \subseteq Udp,
           m = "REGISTER_OK" => e.svc = p.svc \cup {Head(up[p.conn])}
    PROVE  Inv'
<1> DEFINE k == p.conn
<1>1. k \in Conns /\ k # NoConn /\ k \notin cut /\ up[k] # <<>> /\ m \in Replies
  BY ConnSet DEF Inv, Arrived, Replies
<1>2. Shape'
  <2>1. peers' \in SUBSET Peers
    BY DEF Inv, Shape
  <2>2. up' \in [Conns -> Seq(Requests)] /\ down' \in [Conns -> Seq(Replies)] /\ cut' \in SUBSET Conns
    BY <1>1, ServerAnswersShape DEF Inv
  <2> QED
    BY <2>1, <2>2 DEF Inv, Shape
<1>3. Tables'
  <2>1. /\ IsFiniteSet(peers') /\ Cardinality(peers') \in Nat
        /\ Cardinality(peers') <= Cardinality(peers) /\ Cardinality(peers) \in Nat
    BY SwapOne, FS_CardinalityType DEF Inv, Tables
  <2>2. Cardinality(peers') <= max_clients
    BY <2>1, Constants DEF Inv, Tables
  <2>3. \A q, r \in peers' : q # r => (q.svc \cap r.svc) \subseteq Udp
    BY DEF Inv, Tables
  <2> QED
    BY <2>1, <2>2, <2>3 DEF Inv, Tables
<1>4. Locals'
  BY SameLocals DEF Inv
<1>5. Ends'
  <2>1. Distinct(peers') /\ Apart(backlog', peers') /\ Apart(incoming', peers')
    BY DEF Inv, Ends, Distinct, Apart
  <2> QED
    BY <2>1 DEF Inv, Ends
<1>6. Owned'
  BY DEF Inv, Owned
<1>7. Phases'
  <2>1. \A x \in Conns : x # k => NoNewEntry(x)
    BY DEF NoNewEntry
  <2>2. ASSUME NEW c \in Clients, client[c].conn = k, Phase(c, k),
               up'[k] = Tail(up[k]), down'[k] = Append(down[k], m)
        PROVE  Phase(c, k)'
    <3> DEFINE n == client[c].registered
    <3>1. n \in Nat /\ down[k] \in Seq(Replies)
      BY <1>1, ShapeOf DEF Inv
    <3>2. Serving(c, client[c].state, n, up[k], down[k], p.svc)
      BY <1>1, <2>2 DEF Phase
    <3>3. /\ client[c].state = "register" /\ up[k] = <<ServicesOf[c][n + 1]>>
          /\ p.svc = FirstOf(c, n) /\ Quiet(down[k])
      BY <1>1, <3>2 DEF Serving
    <3>4. up'[k] = <<>> /\ Head(up[k]) = ServicesOf[c][n + 1]
      BY <2>2, <3>3
    <3>5. Single(down'[k], m)
      BY <1>1, <2>2, <3>1, <3>3, Appended
    <3>6. m = "REGISTER_OK" => e.svc = FirstOf(c, n + 1)
      BY <3>1, <3>3, <3>4, Firsts
    <3>7. Serving(c, client'[c].state, client'[c].registered, up'[k], down'[k], e.svc)
      BY <3>3, <3>4, <3>5, <3>6 DEF Serving
    <3>8. /\ \A r \in backlog' \cup incoming' : r.conn # k
          /\ \A r \in peers' : r.conn = k => r = e
      BY DEF Inv, Ends, Distinct, Apart
    <3>9. k \notin cut'
      BY <1>1 DEF ServerAnswers
    <3> QED
      BY <3>7, <3>8, <3>9 DEF Phase
  <2> HIDE DEF k
  <2>3. k \in Conns /\ up[k] # <<>> /\ ServerAnswers(k, m) /\ UNCHANGED client
    BY <1>1 DEF k
  <2> QED
    BY <1>1, <2>1, <2>2, <2>3, ServerAnswersPhases DEF Inv
<1> QED
  BY <1>2, <1>3, <1>4, <1>5, <1>6, <1>7 DEF Inv

LEMMA RegisterInv == ASSUME Inv, NEW p \in peers, Register(p) PROVE Inv'
<1> DEFINE x == Head(up[p.conn])
<1>1. p \in Peers /\ p.conn \in Conns /\ p.svc \in SUBSET Requests
  BY ConnSet DEF Inv, Shape, Peers
<1>2. Arrived(up, p.conn) /\ UNCHANGED <<client, backlog, incoming, blocked, faults>>
  BY DEF Register
<1>3. x \in Requests
  BY <1>1, <1>2, ShapeOf, HeadTailProperties DEF Arrived, Inv
<1>4. CASE peer_close(p)
  <2>1. faults' \in 0..MaxFaults
    BY <1>2 DEF Inv, Shape
  <2> QED
    BY <1>2, <1>4, <2>1, PeerClosedInv
<1>5. CASE /\ Registered(p, x)
           /\ peers' = (peers \ {p}) \cup {[p EXCEPT !.svc = @ \cup {x}]}
           /\ ServerAnswers(p.conn, "REGISTER_OK")
  <2> DEFINE e == [p EXCEPT !.svc = @ \cup {x}]
  <2>1. e \in Peers /\ e.conn = p.conn /\ e.client = p.client /\ e.svc = p.svc \cup {x}
    BY <1>1, <1>3 DEF Peers
  <2>2. peers' = (peers \ {p}) \cup {e}
    BY <1>5
  <2> HIDE DEF e
  <2>3. \A r \in peers \ {p} : (e.svc \cap r.svc) \subseteq Udp
    BY <1>5, <2>1 DEF Inv, Tables, Registered, Conflicts
  <2> QED
    BY <1>2, <1>5, <2>1, <2>2, <2>3, AnswerInv
<1>6. CASE UNCHANGED peers /\ ServerAnswers(p.conn, "REGISTER_FAILED")
  <2>1. peers' = (peers \ {p}) \cup {p}
    BY <1>6
  <2>2. \A r \in peers \ {p} : (p.svc \cap r.svc) \subseteq Udp
    BY DEF Inv, Tables
  <2> QED
    BY <1>1, <1>2, <1>6, <2>1, <2>2, AnswerInv
<1> QED
  BY <1>4, <1>5, <1>6 DEF Register

LEMMA NotifiesInv ==
    ASSUME Inv, NEW p \in peers, NEW m \in Notices(p), ServerNotifies(p, m)
    PROVE  Inv'
<1> DEFINE k == p.conn
<1>1. k \in Conns /\ k \notin cut
  BY ConnSet DEF Inv, ServerNotifies
<1>2. m \in Unsolicited /\ m \in Replies
  BY DEF Notices, Unsolicited, Replies
<1>3. down' = [down EXCEPT ![k] = Append(@, m)]
  BY DEF ServerNotifies
<1>4. UNCHANGED <<client, backlog, incoming, peers, up, cut, faults>>
  BY DEF ServerNotifies, server
<1>5. Shape'
  <2>1. Append(down[k], m) \in Seq(Replies)
    BY <1>1, <1>2, ShapeOf, Appended DEF Inv
  <2> QED
    BY <1>3, <1>4, <2>1 DEF Inv, Shape
<1>6. Tables' /\ Locals' /\ Ends' /\ Owned'
  BY <1>4, SameLocals DEF Inv, Tables, Ends, Owned
<1>7. Phases'
  <2>1. \A x \in Conns : x # k => NoNewEntry(x) /\ up'[x] = up[x] /\ down'[x] = down[x]
    BY <1>3, <1>4 DEF NoNewEntry, Inv, Shape
  <2>2. ASSUME NEW c \in Clients, client[c].conn = k PROVE Phase(c, k)'
    <3>1. down'[k] = Append(down[k], m) /\ down[k] \in Seq(Replies)
      BY <1>1, <1>3, ShapeOf DEF Inv, Shape
    <3>2. Phase(c, k)
      BY <1>1, <2>2 DEF Inv, Phases
    <3>3. ASSUME NEW r \in peers, r.conn = k
          PROVE  Serving(c, client[c].state, client[c].registered, up[k], down'[k], r.svc)
      <4>1. Serving(c, client[c].state, client[c].registered, up[k], down[k], r.svc)
        BY <1>1, <3>2, <3>3 DEF Phase
      <4>2. /\ Quiet(down[k]) => Quiet(down'[k])
            /\ Follows(down[k]) => Follows(down'[k])
            /\ \A a : Single(down[k], a) => Single(down'[k], a)
        BY <1>2, <3>1, Appended
      <4> QED
        BY <4>1, <4>2 DEF Serving
    <3>4. \A r \in backlog \cup incoming : r.conn # k
      BY DEF Inv, Ends, Apart
    <3> QED
      BY <1>1, <1>4, <3>3, <3>4 DEF Phase
  <2> HIDE DEF k
  <2> QED
    BY <1>4, <2>1, <2>2, OthersUndisturbed DEF Inv
<1> QED
  BY <1>5, <1>6, <1>7 DEF Inv
-----------------------------------------------------------------------------
(***************************************************************************)
(* Faults, and the whole.                                                  *)
(***************************************************************************)

LEMMA CutInv == ASSUME Inv, NEW k \in Conns, Cut(k) PROVE Inv'
<1>1. /\ k \notin cut /\ cut' = cut \cup {k} /\ UNCHANGED <<client, backlog, incoming, peers>>
      /\ up' = [up EXCEPT ![k] = <<>>] /\ down' = [down EXCEPT ![k] = <<>>]
      /\ faults' \in 0..MaxFaults
  BY FaultStep DEF Cut, server, Inv
<1>2. Shape'
  BY <1>1 DEF Inv, Shape
<1>3. Tables' /\ Locals' /\ Ends' /\ Owned'
  BY <1>1, SameLocals DEF Inv, Tables, Ends, Owned
<1>4. Phases'
  <2>1. \A x \in Conns : x # k => /\ NoNewEntry(x) /\ up'[x] = up[x] /\ down'[x] = down[x]
                                  /\ x \in cut' <=> x \in cut
    BY <1>1 DEF NoNewEntry, Inv, Shape
  <2>2. ASSUME NEW c \in Clients, client[c].conn = k PROVE Phase(c, k)'
    <3>1. Phase(c, k)
      BY <2>2 DEF Inv, Phases
    <3>2. \A p \in peers : p.conn = k /\ client[c].state = "running" => p.svc = Services(c)
      BY <1>1, <3>1 DEF Phase, Serving
    <3> QED
      BY <1>1, <3>2 DEF Phase
  <2> QED
    BY <1>1, <2>1, <2>2, OthersUndisturbed DEF Inv
<1> QED
  BY <1>2, <1>3, <1>4 DEF Inv

LEMMA ServerRestartsInv == ASSUME Inv, ServerRestarts PROVE Inv'
<1>1. /\ backlog' = {} /\ incoming' = {} /\ peers' = {} /\ UNCHANGED <<client, down, cut>>
      /\ up' = [k \in Conns |-> <<>>] /\ faults' \in 0..MaxFaults
  BY FaultStep DEF ServerRestarts, Inv
<1>2. Shape'
  BY <1>1 DEF Inv, Shape
<1>3. Tables' /\ Locals'
  BY <1>1, FewerTables, SameLocals DEF Inv
<1>4. Ends' /\ Owned'
  BY <1>1 DEF Inv, Ends, Owned, Distinct, Apart
<1>5. Phases'
  BY <1>1 DEF Phases, Phase
<1> QED
  BY <1>2, <1>3, <1>4, <1>5 DEF Inv

LEMMA InitInv == Init => Inv
<1> SUFFICES ASSUME Init PROVE Inv
  OBVIOUS
<1>1. \A c \in Clients : client[c] = [state |-> "start", conn |-> NoConn, registered |-> 0,
                                      delay |-> InitialDelay]
  BY DEF Init
<1>2. Shape
  <2>1. client \in [Clients -> ClientStates]
    BY Constants DEF Init, ClientStates, States
  <2> QED
    BY <2>1, Constants DEF Init, Shape
<1>3. Tables
  BY FS_EmptySet, Constants DEF Init, Tables
<1>4. Locals
  BY <1>1, Constants DEF Locals, Local
<1>5. Ends /\ Owned /\ Phases
  BY <1>1, Constants DEF Init, Ends, Owned, Phases, Distinct, Apart
<1> QED
  BY <1>2, <1>3, <1>4, <1>5 DEF Inv

LEMMA SameInv ==
    ASSUME Inv, UNCHANGED <<client, backlog, incoming, peers, up, down, cut, faults>>
    PROVE  Inv'
<1>1. Shape' /\ Tables' /\ Locals' /\ Ends' /\ Owned'
  BY SameLocals DEF Inv, Shape, Tables, Ends, Owned
<1>2. Phases'
  BY DEF Inv, Phases, Phase
<1> QED
  BY <1>1, <1>2 DEF Inv

LEMMA TimesOutFaults == ASSUME Shape, NEW k, TimesOut(k) PROVE faults' \in 0..MaxFaults
BY FaultStep DEF TimesOut, Shape

LEMMA StepInv == Inv /\ [Next]_vars => Inv'
<1> SUFFICES ASSUME Inv, [Next]_vars PROVE Inv'
  OBVIOUS
<1>1. Shape /\ faults \in 0..MaxFaults
  BY DEF Inv, Shape
<1>2. ASSUME NEW c \in Clients, Connect(c) \/ ConnectFails(c) \/ ClientReceives(c) \/ ClientRestarts(c)
      PROVE  Inv'
  BY <1>2, ConnectInv, ConnectFailsInv, ClientReceivesInv, ClientRestartsInv
<1>3. ASSUME NEW c \in Clients, ClientLosesConn(c) PROVE Inv'
  BY <1>1, <1>3, SessionEndsInv DEF ClientLosesConn
<1>4. ASSUME NEW c \in Clients, ClientTimesOut(c) PROVE Inv'
  BY <1>1, <1>4, TimesOutFaults, SessionEndsInv DEF ClientTimesOut
<1>5. ASSUME NEW c \in Clients, BlockEnds(c) PROVE Inv'
  BY <1>5, SameInv DEF BlockEnds
<1>6. ASSUME NEW b \in backlog, Accept(b) PROVE Inv'
  BY <1>6, AcceptInv
<1>7. ASSUME NEW i \in incoming, ServerHello(i) \/ ServerAuth(i) PROVE Inv'
  BY <1>7, ServerHelloInv, ServerAuthInv
<1>8. ASSUME NEW i \in incoming, IncomingEnds(i) PROVE Inv'
  <2>1. faults' \in 0..MaxFaults
    BY <1>1, <1>8, TimesOutFaults DEF IncomingEnds
  <2> QED
    BY <1>8, <2>1, IncomingClosedInv DEF IncomingEnds
<1>9. ASSUME NEW p \in peers, Register(p) \/ \E m \in Notices(p) : ServerNotifies(p, m) PROVE Inv'
  BY <1>9, RegisterInv, NotifiesInv
<1>10. ASSUME NEW p \in peers, PeerEnds(p) PROVE Inv'
  <2>1. faults' \in 0..MaxFaults
    BY <1>1, <1>10, TimesOutFaults DEF PeerEnds
  <2> QED
    BY <1>10, <2>1, PeerClosedInv DEF PeerEnds
<1>11. CASE ServerRestarts \/ \E k \in Conns : Cut(k)
  BY <1>11, CutInv, ServerRestartsInv
<1>12. CASE UNCHANGED vars
  BY <1>12, SameInv DEF vars
<1> QED
  BY <1>2, <1>3, <1>4, <1>5, <1>6, <1>7, <1>8, <1>9, <1>10, <1>11, <1>12 DEF Next

LEMMA InvariantHolds == Spec => []Inv
BY InitInv, StepInv, PTL DEF Spec

\* A client that believes it is running has all its services, and only
\* them, open on the peer of its connection: for every interleaving of the
\* two handshakes with cuts, timeouts, restarts and unsolicited messages.
THEOREM RunningIsServed == Spec => []RunningServed
<1>1. Inv => RunningServed
  <2> SUFFICES ASSUME Inv, NEW c \in Clients, NEW p \in peers,
                      client[c].state = "running", p.conn = client[c].conn
               PROVE  p.client = c /\ p.svc = Services(c)
    BY DEF RunningServed
  <2>1. p.conn \in Conns /\ p.client = c
    BY ConnSet DEF Inv, Owned
  <2>2. Phase(c, p.conn)
    BY <2>1 DEF Inv, Phases
  <2> QED
    BY <2>1, <2>2 DEF Phase, Serving
<1> QED
  BY <1>1, InvariantHolds, PTL

\* No TCP listener is ever opened for two peers, and the peers fit in the
\* configured max_clients, also while a client is back and its old peer has
\* not timed out yet.
THEOREM ListenersUnique == Spec => []OneListener
<1>1. Inv => OneListener
  BY DEF Inv, Tables, OneListener
<1> QED
  BY <1>1, InvariantHolds, PTL

\* A table has as many connections as entries.
LEMMA CountConns ==
    ASSUME NEW S, IsFiniteSet(S), Distinct(S)
    PROVE  IsFiniteSet(ConnsOf(S)) /\ Cardinality(ConnsOf(S)) = Cardinality(S)
<1> DEFINE f == [r \in S |-> r.conn]
           T == ConnsOf(S)
<1>1. f \in Bijection(S, T)
  BY DEF Bijection, Injection, Surjection, IsInjective, Distinct, ConnsOf
<1> HIDE DEF f, T
<1>2. IsFiniteSet(T) /\ Cardinality(T) = Cardinality(S)
  <2>1. ExistsBijection(S, T)
    BY <1>1 DEF ExistsBijection
  <2> QED
    BY <2>1, FS_Bijection
<1> QED
  BY <1>2 DEF T

LEMMA DisjointUnion ==
    ASSUME NEW S, IsFiniteSet(S), NEW T, IsFiniteSet(T), S \cap T = {}
    PROVE  IsFiniteSet(S \cup T) /\ Cardinality(S \cup T) = Cardinality(S) + Cardinality(T)
<1>1. Cardinality(S) \in Nat /\ Cardinality(T) \in Nat /\ Cardinality({}) = 0
  BY FS_CardinalityType, FS_EmptySet
<1>2. /\ IsFiniteSet(S \cup T)
      /\ Cardinality(S \cup T) = Cardinality(S) + Cardinality(T) - Cardinality(S \cap T)
  BY FS_Union
<1>3. Cardinality(S \cap T) = 0
  BY <1>1
<1> QED
  BY <1>1, <1>2, <1>3

\* Every variable keeps its type, the reconnect delay stays in the
\* configured range, incoming[] is not overrun and no connection is held by
\* two entries of the server.
THEOREM SessionTypes == Spec => []TypeOK
<1>1. Inv => TypeOK
  <2> SUFFICES ASSUME Inv PROVE TypeOK
    OBVIOUS
  <2>1. \A c \in Clients :
          /\ client[c].state \in {"start", "sleep", "hello", "auth", "register", "running"}
          /\ client[c].conn = NoConn <=> client[c].state \in {"start", "sleep"}
          /\ client[c].registered \in 0..Len(ServicesOf[c])
          /\ client[c].delay \in InitialDelay..LongestDelay
    <3>1. \A c \in Clients : client[c].state \in States /\ client[c].registered \in Nat
      BY ShapeOf DEF Inv, ClientStates
    <3> QED
      BY <3>1, Constants DEF Inv, Locals, Local, States
  <2>2. \A p \in peers : p.conn \in Conns /\ p.client \in Clients
    BY DEF Inv, Shape, Peers
  <2>3. Cardinality(ServerEnds) = Cardinality(backlog) + Cardinality(incoming) + Cardinality(peers)
    <3> DEFINE B == ConnsOf(backlog)
               I == ConnsOf(incoming)
               P == ConnsOf(peers)
    <3>1. /\ IsFiniteSet(B) /\ Cardinality(B) = Cardinality(backlog)
          /\ IsFiniteSet(I) /\ Cardinality(I) = Cardinality(incoming)
          /\ IsFiniteSet(P) /\ Cardinality(P) = Cardinality(peers)
      BY CountConns DEF Inv, Ends, Tables
    <3>2. B \cap I = {} /\ (B \cup I) \cap P = {}
      BY DEF Inv, Ends, Apart, ConnsOf
    <3>3. ServerEnds = (B \cup I) \cup P
      BY DEF ServerEnds
    <3> HIDE DEF B, I, P
    <3>4. IsFiniteSet(B \cup I) /\ Cardinality(B \cup I) = Cardinality(B) + Cardinality(I)
      BY <3>1, <3>2, DisjointUnion
    <3>5. Cardinality((B \cup I) \cup P) = Cardinality(B \cup I) + Cardinality(P)
      BY <3>1, <3>2, <3>4, DisjointUnion
    <3> QED
      BY <3>1, <3>3, <3>4, <3>5
  <2>4. /\ backlog \subseteq [conn : Conns, client : Clients]
        /\ incoming \subseteq [conn : Conns, client : Clients, waiting_for_auth : BOOLEAN]
        /\ Cardinality(incoming) <= MAX_INCOMING /\ faults \in 0..MaxFaults
    BY DEF Inv, Shape, Tables, Backlog, Incoming
  <2> QED
    BY <2>1, <2>2, <2>3, <2>4 DEF TypeOK
<1> QED
  BY <1>1, InvariantHolds, PTL
==============================================================================
