------------------------------- MODULE Sessions ------------------------------
(***************************************************************************)
(* How clients and the server come to share a session, and come back to    *)
(* one after a failure: connection, handshake, registration of services,   *)
(* heartbeat and reconnection (client/client.c, server/server.c and the    *)
(* handshake of net/net.c).                                                *)
(*                                                                         *)
(* A connection carries messages in order.  It may be cut, after which     *)
(* nothing arrives and neither end is told: only the timeouts find out.    *)
(* Keys and signatures are left out: whoever holds an end of a connection  *)
(* is the client that opened it.  PING, PONG and the heartbeat clock are   *)
(* left out too: on a connection that is not cut they arrive.              *)
(***************************************************************************)
EXTENDS Integers, Sequences, FiniteSets

CONSTANTS
    Clients,        \* client processes, each at an address of its own
    Authorized,     \* clients in the authorized_clients file
    ServicesOf,     \* the services of each client's configuration, in order
    Allowed,        \* services a client's authorization admits (ct_authorized_port)
    Udp,            \* the services with type = udp
    MaxServices,    \* the lesser of auth->max_services and max_services_per_client
    max_clients,
    MAX_INCOMING,
    InitialDelay, MaxDelay,   \* reconnect_initial_delay, reconnect_max_delay
    Conns,          \* bound: connections that exist at the same time
    MaxNotices,     \* bound: unsolicited messages on the way to a client
    MaxFaults       \* bound: cuts, stalls, refused connects and restarts

Services(c) == {ServicesOf[c][i] : i \in DOMAIN ServicesOf[c]}

ASSUME SessionsAssumption ==
    /\ \A c \in Clients : ServicesOf[c] \in Seq(Services(c))
    /\ Authorized \subseteq Clients /\ Conns \subseteq Nat \ {0}
    /\ max_clients \in Nat \ {0} /\ MAX_INCOMING \in Nat \ {0} /\ MaxServices \in Nat
    /\ InitialDelay \in Nat \ {0} /\ MaxDelay \in Nat
    /\ MaxNotices \in Nat /\ MaxFaults \in Nat

NoConn == 0

VARIABLES
    client,    \* each client: [state, conn, registered, delay]
    backlog,   \* connections not accepted yet: [conn, client]
    incoming,  \* incoming[]: [conn, client, waiting_for_auth]
    peers,     \* active peers[]: [conn, client, svc]
    blocked,   \* addresses whose auth_rate entry has blocked_until ahead
    up, down,  \* messages on each connection, to the server and to the client
    cut,       \* connections that carry nothing any more
    faults     \* faults still to come

vars == <<client, backlog, incoming, peers, blocked, up, down, cut, faults>>
server == <<backlog, incoming, peers, blocked>>

ConnsOf(S)  == {r.conn : r \in S}
ServerEnds  == ConnsOf(backlog) \cup ConnsOf(incoming) \cup ConnsOf(peers)
ClientEnds  == {client[c].conn : c \in Clients} \ {NoConn}

Init ==
    /\ client = [c \in Clients |->
                   [state |-> "start", conn |-> NoConn, registered |-> 0, delay |-> InitialDelay]]
    /\ backlog = {} /\ incoming = {} /\ peers = {} /\ blocked = {}
    /\ up = [k \in Conns |-> <<>>] /\ down = [k \in Conns |-> <<>>]
    /\ cut = {} /\ faults = MaxFaults
-----------------------------------------------------------------------------
(***************************************************************************)
(* Connections.                                                            *)
(***************************************************************************)

\* A deadline passes on k: because the connection is cut or, a fault,
\* because the other end is slow.
TimesOut(k) ==
    \/ k \in cut /\ UNCHANGED faults
    \/ k \notin cut /\ faults > 0 /\ faults' = faults - 1

Arrived(queue, k) == k \notin cut /\ queue[k] # <<>>

\* The server closes its end of k: what the client sent is lost.
ServerCloses(k) ==
    /\ up' = [up EXCEPT ![k] = <<>>]
    /\ cut' = IF k \in ClientEnds THEN cut ELSE cut \ {k}
    /\ down' = IF k \in ClientEnds THEN down ELSE [down EXCEPT ![k] = <<>>]

\* The server consumes the first message of k and answers m.
ServerAnswers(k, m) ==
    /\ up' = [up EXCEPT ![k] = Tail(@)]
    /\ down' = IF k \in ClientEnds THEN [down EXCEPT ![k] = Append(@, m)] ELSE down
    /\ UNCHANGED cut

\* A send fails only after the client closed its end.
Sendable(k) == IF k \in ClientEnds \cup cut THEN {TRUE} ELSE BOOLEAN
-----------------------------------------------------------------------------
(***************************************************************************)
(* The client.                                                             *)
(***************************************************************************)

\* Faulty: the delay doubles without end.
DoubledUncapped(delay) == 2 * delay

\* The delay of the attempt after one that failed.
Doubled(delay) ==
    IF delay >= MaxDelay THEN delay ELSE IF 2 * delay > MaxDelay THEN MaxDelay ELSE 2 * delay

NextDelay(c) == IF client[c].state = "start" THEN InitialDelay ELSE Doubled(client[c].delay)

\* client_session connects and sends CLIENT_HELLO.
Connect(c) ==
    /\ client[c].state \in {"start", "sleep"}
    /\ \E k \in Conns \ (ServerEnds \cup ClientEnds) :
          /\ client' = [client EXCEPT ![c] =
               [state |-> "hello", conn |-> k, registered |-> 0, delay |-> NextDelay(c)]]
          /\ backlog' = backlog \cup {[conn |-> k, client |-> c]}
          /\ up' = [up EXCEPT ![k] = <<"CLIENT_HELLO">>]
          /\ down' = [down EXCEPT ![k] = <<>>]
          /\ cut' = cut \ {k}
    /\ UNCHANGED <<incoming, peers, blocked, faults>>

ConnectFails(c) ==
    /\ client[c].state \in {"start", "sleep"}
    /\ faults > 0 /\ faults' = faults - 1
    /\ client' = [client EXCEPT ![c].state = "sleep", ![c].delay = NextDelay(c)]
    /\ UNCHANGED <<server, up, down, cut>>

\* client_session returns: -2, which resets the delay, once it was running,
\* else -1.
SessionEnds(c) ==
    LET k == client[c].conn IN
    /\ client' = [client EXCEPT ![c] =
         [state |-> "sleep", conn |-> NoConn, registered |-> 0,
          delay |-> IF client[c].state = "running" THEN InitialDelay ELSE client[c].delay]]
    /\ down' = [down EXCEPT ![k] = <<>>]
    /\ cut' = IF k \in ServerEnds THEN cut ELSE cut \ {k}

\* The client consumes a message and goes to state s with n services
\* registered, sending ms.
ClientMoves(c, s, n, ms) ==
    LET k == client[c].conn IN
    /\ client' = [client EXCEPT ![c].state = s, ![c].registered = n]
    /\ down' = [down EXCEPT ![k] = Tail(@)]
    /\ up' = IF k \in ServerEnds THEN [up EXCEPT ![k] = @ \o ms] ELSE up
    /\ UNCHANGED cut

\* n services are registered: ask for the next one, or start running.
RegisterNext(c, n) ==
    IF n = Len(ServicesOf[c]) THEN ClientMoves(c, "running", n, <<>>)
    ELSE ClientMoves(c, "register", n, <<ServicesOf[c][n + 1]>>)

\* Faulty: any answer counts as REGISTER_OK.
AnsweredUnchecked(c, m) ==
    IF m = "NOTICE" THEN ClientMoves(c, "register", client[c].registered, <<>>)
    ELSE RegisterNext(c, client[c].registered + 1)

\* client_register: the answer to REGISTER_SERVICE.  PING is answered and
\* REQUEST_WORK_CONNECTION ignored; anything else but REGISTER_OK ends the
\* session.
Answered(c, m) ==
    \/ m = "NOTICE" /\ ClientMoves(c, "register", client[c].registered, <<>>)
    \/ m = "REGISTER_OK" /\ RegisterNext(c, client[c].registered + 1)
    \/ m \notin {"NOTICE", "REGISTER_OK"} /\ SessionEnds(c) /\ UNCHANGED up

\* ct_handshake_client, client_register and the loop of client_session.
ClientReceives(c) ==
    /\ client[c].conn # NoConn /\ Arrived(down, client[c].conn)
    /\ LET m == Head(down[client[c].conn]) IN
       \/ client[c].state = "hello" /\ ClientMoves(c, "auth", 0, <<"CLIENT_AUTH">>)
       \/ client[c].state = "auth" /\ RegisterNext(c, 0)
       \/ client[c].state = "register" /\ Answered(c, m)
       \/ client[c].state = "running" /\ ClientMoves(c, "running", client[c].registered, <<>>)
    /\ UNCHANGED <<server, faults>>

\* The server closed the connection, or said GOAWAY.
ClientLosesConn(c) ==
    /\ client[c].conn \notin ServerEnds \cup cut \cup {NoConn}
    /\ SessionEnds(c)
    /\ UNCHANGED <<server, up, faults>>

\* A receive deadline or heartbeat_timeout passes.
ClientTimesOut(c) ==
    /\ client[c].conn # NoConn
    /\ TimesOut(client[c].conn)
    /\ SessionEnds(c)
    /\ UNCHANGED <<server, up>>
-----------------------------------------------------------------------------
(***************************************************************************)
(* The server.                                                             *)
(***************************************************************************)

\* REF_ACCEPT: at most two incoming connections of an address.
Accept(b) ==
    /\ backlog' = backlog \ {b}
    /\ IF \/ Cardinality(incoming) = MAX_INCOMING
          \/ Cardinality({i \in incoming : i.client = b.client}) >= 2
       THEN ServerCloses(b.conn) /\ UNCHANGED incoming
       ELSE /\ incoming' = incoming \cup
                 {[conn |-> b.conn, client |-> b.client, waiting_for_auth |-> FALSE]}
            /\ UNCHANGED <<up, down, cut>>
    /\ UNCHANGED <<client, peers, blocked, faults>>

\* ct_handshake_server_begin: the client is in the clients file and
\* SERVER_HELLO could be sent.
ct_handshake_server_begin(i, sent) == i.client \in Authorized /\ sent

\* REF_INCOMING, CLIENT_HELLO: refused while the address is blocked; a failed
\* ct_handshake_server_begin blocks it.
ServerHello(i) ==
    /\ ~i.waiting_for_auth /\ Arrived(up, i.conn)
    /\ \E sent \in Sendable(i.conn) :
         IF i.client \notin blocked /\ ct_handshake_server_begin(i, sent)
         THEN /\ incoming' = (incoming \ {i}) \cup {[i EXCEPT !.waiting_for_auth = TRUE]}
              /\ ServerAnswers(i.conn, "SERVER_HELLO")
              /\ UNCHANGED blocked
         ELSE /\ incoming' = incoming \ {i}
              /\ blocked' = blocked \cup {i.client}
              /\ ServerCloses(i.conn)
    /\ UNCHANGED <<client, backlog, peers, faults>>

\* A slot of peers[] below max_clients is not active.
SlotFree == Cardinality(peers) < max_clients

\* REF_INCOMING, CLIENT_AUTH: the connection becomes the control channel of
\* a new peer; without a slot, or if AUTH_OK cannot be sent, the address is
\* blocked.
ServerAuth(i) ==
    /\ i.waiting_for_auth /\ Arrived(up, i.conn)
    /\ incoming' = incoming \ {i}
    /\ \E sent \in Sendable(i.conn) :
         IF SlotFree /\ sent
         THEN /\ peers' = peers \cup {[conn |-> i.conn, client |-> i.client, svc |-> {}]}
              /\ blocked' = blocked \ {i.client}
              /\ ServerAnswers(i.conn, "AUTH_OK")
         ELSE /\ blocked' = blocked \cup {i.client}
              /\ ServerCloses(i.conn)
              /\ UNCHANGED peers
    /\ UNCHANGED <<client, backlog, faults>>

\* The client closed the connection, or the deadline passes.
IncomingEnds(i) ==
    /\ \/ i.conn \notin ClientEnds \cup cut /\ UNCHANGED faults
       \/ TimesOut(i.conn)
    /\ incoming' = incoming \ {i}
    /\ ServerCloses(i.conn)
    /\ UNCHANGED <<client, backlog, peers, blocked>>

\* blocked_until passes.
BlockEnds(c) ==
    /\ c \in blocked
    /\ blocked' = blocked \ {c}
    /\ UNCHANGED <<client, backlog, incoming, peers, up, down, cut, faults>>

\* Faulty: no listener is ever in the way.
ConflictsNever(x) == FALSE

\* The listener of x cannot be bound or overlaps another one.  A UDP socket
\* can: ct_udp_bind sets SO_REUSEADDR and the overlap check is for TCP only.
Conflicts(x) == x \notin Udp /\ \E p \in peers : x \in p.svc

\* register_service
Registered(p, x) ==
    /\ x \notin p.svc /\ Cardinality(p.svc) < MaxServices
    /\ x \in Allowed[p.client]
    /\ ~Conflicts(x)

peer_close(p) == peers' = peers \ {p} /\ ServerCloses(p.conn)

\* REF_CONTROL, REGISTER_SERVICE: the peer is closed if the answer cannot be
\* sent.
Register(p) ==
    /\ Arrived(up, p.conn)
    /\ LET x == Head(up[p.conn]) IN
       \E sent \in Sendable(p.conn) :
         IF ~sent THEN peer_close(p)
         ELSE IF Registered(p, x)
         THEN /\ peers' = (peers \ {p}) \cup {[p EXCEPT !.svc = @ \cup {x}]}
              /\ ServerAnswers(p.conn, "REGISTER_OK")
         ELSE UNCHANGED peers /\ ServerAnswers(p.conn, "REGISTER_FAILED")
    /\ UNCHANGED <<client, backlog, incoming, blocked, faults>>

\* Faulty: only a closed connection ends a peer, no timeout does.
PeerEndsEofOnly(p) ==
    /\ p.conn \notin ClientEnds \cup cut
    /\ peer_close(p)
    /\ UNCHANGED <<client, backlog, incoming, blocked, faults>>

\* The control channel is lost: closed by the client, or heartbeat_timeout.
PeerEnds(p) ==
    /\ \/ p.conn \notin ClientEnds \cup cut /\ UNCHANGED faults
       \/ TimesOut(p.conn)
    /\ peer_close(p)
    /\ UNCHANGED <<client, backlog, incoming, blocked>>

\* Unsolicited messages: PING and REQUEST_WORK_CONNECTION, and the datagrams
\* of a UDP service.
Notices(p) == {"NOTICE"} \cup (IF p.svc \cap Udp # {} THEN {"UDP_DATAGRAM"} ELSE {})

ServerNotifies(p, m) ==
    /\ p.conn \in ClientEnds /\ p.conn \notin cut
    /\ Cardinality({i \in DOMAIN down[p.conn] :
                      down[p.conn][i] \in {"NOTICE", "UDP_DATAGRAM"}}) < MaxNotices
    /\ down' = [down EXCEPT ![p.conn] = Append(@, m)]
    /\ UNCHANGED <<client, server, up, cut, faults>>
-----------------------------------------------------------------------------
(***************************************************************************)
(* Faults.                                                                 *)
(***************************************************************************)

Cut(k) ==
    /\ faults > 0 /\ faults' = faults - 1
    /\ k \in (ServerEnds \cup ClientEnds) \ cut
    /\ cut' = cut \cup {k}
    /\ up' = [up EXCEPT ![k] = <<>>] /\ down' = [down EXCEPT ![k] = <<>>]
    /\ UNCHANGED <<client, server>>

\* The server stops and starts again; a client does.
ServerRestarts ==
    /\ faults > 0 /\ faults' = faults - 1
    /\ backlog' = {} /\ incoming' = {} /\ peers' = {} /\ blocked' = {}
    /\ up' = [k \in Conns |-> <<>>]
    /\ UNCHANGED <<client, down, cut>>

ClientRestarts(c) ==
    /\ faults > 0 /\ faults' = faults - 1
    /\ client[c].state # "start"
    /\ client' = [client EXCEPT ![c] =
         [state |-> "start", conn |-> NoConn, registered |-> 0, delay |-> InitialDelay]]
    /\ down' = IF client[c].conn = NoConn THEN down ELSE [down EXCEPT ![client[c].conn] = <<>>]
    /\ UNCHANGED <<server, up, cut>>
-----------------------------------------------------------------------------
ClientStep(c) ==
    \/ Connect(c) \/ ClientReceives(c) \/ ClientLosesConn(c)
    \/ client[c].conn \in cut /\ ClientTimesOut(c)

ServerStep(k) ==
    \/ \E b \in backlog : b.conn = k /\ Accept(b)
    \/ \E i \in incoming : i.conn = k /\ (ServerHello(i) \/ ServerAuth(i))
    \/ \E i \in incoming : i.conn = k /\ k \notin ClientEnds \ cut /\ IncomingEnds(i)
    \/ \E p \in peers : p.conn = k /\ Register(p)
    \/ \E p \in peers : p.conn = k /\ k \notin ClientEnds \ cut /\ PeerEnds(p)

Next ==
    \/ \E c \in Clients : \/ Connect(c) \/ ConnectFails(c) \/ ClientReceives(c)
                          \/ ClientLosesConn(c) \/ ClientTimesOut(c)
                          \/ BlockEnds(c) \/ ClientRestarts(c)
    \/ \E b \in backlog : Accept(b)
    \/ \E i \in incoming : ServerHello(i) \/ ServerAuth(i) \/ IncomingEnds(i)
    \/ \E p \in peers : \/ Register(p) \/ PeerEnds(p)
                        \/ \E m \in Notices(p) : ServerNotifies(p, m)
    \/ \E k \in Conns : Cut(k)
    \/ ServerRestarts

Spec == Init /\ [][Next]_vars

\* Both loops go on: every event is handled, every deadline seen to pass and
\* every delay slept through.  Nothing obliges the outside to send or to
\* stop sending.
Fairness ==
    /\ \A c \in Clients : WF_vars(ClientStep(c)) /\ WF_vars(BlockEnds(c))
    /\ \A k \in Conns : WF_vars(ServerStep(k))

FairSpec == Spec /\ Fairness
-----------------------------------------------------------------------------
(***************************************************************************)
(* Properties.                                                             *)
(***************************************************************************)

\* ct_config_validate does not compare the two delays: an initial delay above
\* the maximum is accepted, and the client keeps it.
LongestDelay == IF InitialDelay > MaxDelay THEN InitialDelay ELSE MaxDelay

\* Every variable has its type; the delay doubles up to the longest one and no
\* further, and no connection has two ends on the same side.
TypeOK ==
    /\ \A c \in Clients :
         /\ client[c].state \in {"start", "sleep", "hello", "auth", "register", "running"}
         /\ client[c].conn = NoConn <=> client[c].state \in {"start", "sleep"}
         /\ client[c].registered \in 0..Len(ServicesOf[c])
         /\ client[c].delay \in InitialDelay..LongestDelay
    /\ backlog \subseteq [conn : Conns, client : Clients]
    /\ incoming \subseteq [conn : Conns, client : Clients, waiting_for_auth : BOOLEAN]
    /\ \A p \in peers : p.conn \in Conns /\ p.client \in Clients
    /\ Cardinality(incoming) <= MAX_INCOMING
    /\ Cardinality(ServerEnds) = Cardinality(backlog) + Cardinality(incoming) + Cardinality(peers)
    /\ faults \in 0..MaxFaults

\* A client that runs is served: as long as its peer is active on the server,
\* the listeners of all its services are open, and no other client's.
RunningServed ==
    \A c \in Clients : \A p \in peers :
        client[c].state = "running" /\ p.conn = client[c].conn
          => p.client = c /\ p.svc = Services(c)

\* A TCP listener belongs to one peer, also while a client comes back and its
\* old peer is still there; peers never exceed max_clients.
OneListener ==
    /\ \A p, r \in peers : p # r => (p.svc \cap r.svc) \subseteq Udp
    /\ Cardinality(peers) <= max_clients

\* Once the faults are over, every authorized client is running for good,
\* the server serves it on the connection it uses, and the peers of its
\* broken connections are gone: no stale listener, full table or blocked
\* address keeps a client out.
Recovers ==
    <>[](/\ \A c \in Authorized :
              /\ client[c].state = "running"
              /\ \E p \in peers : p.conn = client[c].conn
         /\ Cardinality(peers) = Cardinality(Authorized))
==============================================================================
