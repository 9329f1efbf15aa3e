-------------------------------- MODULE Tunnel -------------------------------
(***************************************************************************)
(* The streams of one service, across both programs: the client's pool of  *)
(* work connections and its streams (client_session in client/client.c)    *)
(* composed with the queues of the server's peer (server/server.c), joined *)
(* by the control channel and by work connections that carry               *)
(* WORK_CONNECTION_BIND, START_STREAM and STREAM_READY or STREAM_FAILED    *)
(* (net/net.c).                                                            *)
(*                                                                         *)
(* A stream is named by the user it is for.  A work connection is named by *)
(* its sequence number and has two ends, each closed on its own.  Both     *)
(* programs are single threads: a handler is one step, except that the     *)
(* client blocks in connect to the local service, during which the server  *)
(* goes on.  A deadline may pass at any time.  Descriptors and batches are *)
(* in module ServerPeer, bytes in Relay, frames in Control.                *)
(***************************************************************************)
EXTENDS Integers, Sequences, FiniteSets

CONSTANTS
    Users,          \* external connections that may come
    pool_count,
    MAX_STREAMS,    \* CONFIG_MAX_STREAMS: MAX_WORK and MAX_RELAYS
    MAX_PENDING,    \* CONFIG_MAX_PENDING_STREAMS
    StreamLimit,    \* the lesser of auth->max_streams and max_streams_per_client
    PendingLimit,   \* max_pending_streams
    PerAddress,     \* incoming connections admitted from one address
    MaxConns,       \* bound: work connections of the session
    MaxFaults       \* bound: connections that break or cannot be made

ASSUME TunnelAssumption ==
    /\ pool_count \in Nat /\ MAX_STREAMS \in Nat \ {0} /\ MAX_PENDING \in Nat \ {0}
    /\ StreamLimit \in 1..MAX_STREAMS /\ PendingLimit \in 1..MAX_PENDING
    /\ PerAddress \in Nat \ {0} /\ MaxConns \in Nat /\ MaxFaults \in Nat

Conns == 1..MaxConns

VARIABLES
    client,     \* "registering", "running" or "ended"
    pool,       \* client: idle work connections, work[]
    dialing,    \* client: streams whose local connect blocks it, at most one
    crelays,    \* client: relays, [user, work]
    made,       \* client: work_tx_seq
    server,     \* "active" or "ended"
    backlog,    \* connections the server has not accepted, in order
    incoming,   \* server: accepted, WORK_CONNECTION_BIND not read yet
    idle,       \* server: p->work, a stack
    pending,    \* server: users of p->pending
    starting,   \* server: p->starting, [user, work]
    srelays,    \* server: relays, [user, work]
    requests,   \* REQUEST_WORK_CONNECTION frames on the way
    toServer, toClient,   \* messages on the way, by work connection
    openC, openS,         \* work connections whose end is open at each side
    broken,     \* work connections that broke on the network
    faults,     \* faults still to come
    seen,       \* history: users accepted
    dialled,    \* history: users the local service was dialled for
    lost        \* history: requests and new connections that came to nothing

cvars    == <<client, pool, dialing, crelays, made>>
svars    == <<server, backlog, incoming, idle, pending, starting, srelays>>
net      == <<requests, toServer, toClient, openC, openS, broken, faults>>
history  == <<seen, dialled, lost>>
vars     == <<cvars, svars, net, history>>

Stream(u, w) == [user |-> u, work |-> w]
UsersOf(S)   == {s.user : s \in S}
WorkOf(S)    == {s.work : s \in S}
Elements(q)  == {q[i] : i \in DOMAIN q}
Lesser(a, b) == IF a < b THEN a ELSE b

\* What an end of w may find out: the other end is closed, or w is broken.
DeadAtServer(w) == w \in broken \/ w \notin openC
DeadAtClient(w) == w \in broken \/ w \notin openS

Init ==
    /\ client = "registering" /\ server = "active"
    /\ pool = {} /\ dialing = {} /\ crelays = {} /\ made = 0
    /\ backlog = <<>> /\ incoming = {} /\ idle = <<>> /\ pending = <<>>
    /\ starting = {} /\ srelays = {}
    /\ requests = 0
    /\ toServer = [w \in Conns |-> <<>>] /\ toClient = [w \in Conns |-> <<>>]
    /\ openC = {} /\ openS = {} /\ broken = {}
    /\ faults = MaxFaults
    /\ seen = {} /\ dialled = {} /\ lost = 0
-----------------------------------------------------------------------------
(***************************************************************************)
(* The client.                                                             *)
(***************************************************************************)

\* Faulty: the size of work[] is not checked.
add_workUnchecked(idling, k, fails, closing) ==
    LET new == (made + 1)..(made + k) IN
    /\ made + k <= MaxConns
    /\ fails <= faults /\ faults' = faults - fails
    /\ made' = made + k
    /\ pool' = idling \cup new
    /\ backlog' = backlog \o [i \in 1..k |-> made + i]
    /\ openC' = (openC \ closing) \cup new
    /\ openS' = openS \cup new

\* add_work k times, then fails times in vain, with idling in the pool and
\* the end of closing closed: ct_work_connect connects, and the BIND goes
\* into the connection.
add_work(idling, k, fails, closing) ==
    LET new == (made + 1)..(made + k) IN
    /\ Cardinality(idling) + k <= MAX_STREAMS /\ made + k <= MaxConns
    /\ fails <= faults /\ faults' = faults - fails
    /\ made' = made + k
    /\ pool' = idling \cup new
    /\ backlog' = backlog \o [i \in 1..k |-> made + i]
    /\ openC' = (openC \ closing) \cup new
    /\ openS' = openS \cup new

\* The loops that fill the pool stop at pool_count, at MAX_WORK or when a
\* connection fails.
Fill(idling, closing) ==
    \E k \in 0..MAX_STREAMS, fails \in 0..1 :
      /\ add_work(idling, k, fails, closing)
      /\ k > 0 => Cardinality(idling) + k <= pool_count
      /\ \/ Cardinality(idling) + k >= Lesser(pool_count, MAX_STREAMS)
         \/ fails = 1

ready == client = "running" /\ dialing = {}

\* client_register is done: the pool is filled.
Registered ==
    /\ client = "registering" /\ client' = "running"
    /\ Fill({}, {})
    /\ UNCHANGED <<dialing, crelays, server, incoming, idle, pending, starting, srelays,
                   requests, toServer, toClient, broken, history>>

\* REQUEST_WORK_CONNECTION while client_register waits for REGISTER_OK.
RequestDropped ==
    /\ client = "registering" /\ requests > 0
    /\ requests' = requests - 1 /\ lost' = lost + 1
    /\ UNCHANGED <<cvars, svars, toServer, toClient, openC, openS, broken, faults,
                   seen, dialled>>

\* REF_CONTROL, REQUEST_WORK_CONNECTION: the result of add_work is ignored.
Request ==
    /\ ready /\ requests > 0
    /\ requests' = requests - 1
    /\ \/ add_work(pool, 1, 0, {}) /\ UNCHANGED lost
       \/ add_work(pool, 0, 1, {}) /\ lost' = lost + 1
       \/ /\ Cardinality(pool) >= MAX_STREAMS
          /\ add_work(pool, 0, 0, {}) /\ lost' = lost + 1
    /\ UNCHANGED <<client, dialing, crelays, server, incoming, idle, pending, starting,
                   srelays, toServer, toClient, broken, seen, dialled>>

\* Faulty: the socket of the broken connection is not closed.
IdleLostOpen(w) ==
    /\ ready /\ w \in pool /\ DeadAtClient(w)
    /\ pool' = pool \ {w}
    /\ UNCHANGED <<client, dialing, crelays, made, svars, net, history>>

\* REF_WORK: the connection is found broken, or START_STREAM cannot be read.
\* The pool is not refilled.
IdleLost(w) ==
    /\ ready /\ w \in pool /\ DeadAtClient(w)
    /\ pool' = pool \ {w} /\ openC' = openC \ {w}
    /\ UNCHANGED <<client, dialing, crelays, made, svars, requests, toServer, toClient,
                   openS, broken, faults, history>>

\* REF_WORK: START_STREAM is there.  The connection leaves the pool and the
\* client starts to connect to the local service.
StartStream(w) ==
    /\ ready /\ w \in pool /\ toClient[w] # <<>>
    /\ pool' = pool \ {w}
    /\ dialing' = {Stream(Head(toClient[w]), w)}
    /\ toClient' = [toClient EXCEPT ![w] = Tail(@)]
    /\ UNCHANGED <<client, crelays, made, svars, requests, toServer, openC, openS, broken,
                   faults, history>>

\* The local connect ends, the answer m is on its way to the server if it
\* could be sent, the client keeps the relays R, and the pool is refilled.
DialEnds(s, m, R) ==
    /\ dialing' = {} /\ crelays' = R
    /\ toServer' = [toServer EXCEPT ![s.work] = @ \o m]
    /\ Fill(pool, IF s \in R THEN {} ELSE {s.work})
    /\ UNCHANGED <<client, server, incoming, idle, pending, starting, srelays, requests,
                   toClient, broken, seen, lost>>

Message(kind, s) == <<[kind |-> kind, user |-> s.user]>>

\* Faulty: STREAM_READY is sent before the local service is connected.
LocalRefusedReady ==
    \E s \in dialing : DialEnds(s, Message("STREAM_READY", s), crelays) /\ UNCHANGED dialled

\* No such service, another mode, or the local service does not answer.
LocalRefused ==
    \E s \in dialing : DialEnds(s, Message("STREAM_FAILED", s), crelays) /\ UNCHANGED dialled

\* Connected: the relay is set up once STREAM_READY is sent; if no slot is
\* free, STREAM_READY cannot be sent or ct_relay_init fails, both go.
LocalConnected ==
    \E s \in dialing :
      /\ dialled' = dialled \cup {s.user}
      /\ \/ /\ Cardinality(crelays) < MAX_STREAMS
            /\ DialEnds(s, Message("STREAM_READY", s), crelays \cup {s})
         \/ /\ Cardinality(crelays) = MAX_STREAMS \/ DeadAtClient(s.work)
            /\ DialEnds(s, <<>>, crelays)
         \/ /\ Cardinality(crelays) < MAX_STREAMS
            /\ DialEnds(s, Message("STREAM_READY", s), crelays)

\* A relay event that ends the stream.
ClientRelayEnds(s) ==
    /\ ready /\ s \in crelays
    /\ crelays' = crelays \ {s} /\ openC' = openC \ {s.work}
    /\ UNCHANGED <<client, pool, dialing, made, svars, requests, toServer, toClient, openS,
                   broken, faults, history>>

\* done: the control channel is lost, the peer says GOAWAY, the heartbeat is
\* overdue or the program stops.
ClientEnds ==
    /\ client # "ended" /\ dialing = {}
    /\ client' = "ended"
    /\ pool' = {} /\ crelays' = {} /\ openC' = {}
    /\ UNCHANGED <<dialing, made, svars, requests, toServer, toClient, openS, broken, faults,
                   history>>
-----------------------------------------------------------------------------
(***************************************************************************)
(* The server.                                                             *)
(***************************************************************************)

\* Faulty: the connection stays in p->work after it was paired.
match_pendingKept(p, w) ==
    IF p = <<>> \/ w = <<>>
    THEN pending' = p /\ idle' = w /\ UNCHANGED <<starting, toClient, openS>>
    ELSE LET s == Stream(Head(p), w[Len(w)]) IN
         /\ pending' = Tail(p) /\ idle' = w
         /\ starting' = starting \cup {s}
         /\ toClient' = [toClient EXCEPT ![s.work] = Append(@, s.user)]
         /\ UNCHANGED openS

\* ct_start_stream_send for the streams of started: START_STREAM goes into the
\* work connection of each.
ct_start_stream_send(started) ==
    [c \in Conns |-> toClient[c] \o (IF c \in WorkOf(started)
                                     THEN <<(CHOOSE s \in started : s.work = c).user>>
                                     ELSE <<>>)]

\* match_pending with pending = p and work = w: the oldest streams are paired
\* with the connections on top of the stack while starting[] has room;
\* START_STREAM cannot be sent for those of failed.
match_pending(p, w) ==
    \E k \in 0..Lesser(Len(p), Len(w)) : \E failed \in SUBSET (1..k) :
      LET full(j)   == Cardinality(starting) + Cardinality((1..j) \ failed) >= MAX_PENDING
          pair(i)   == Stream(p[i], w[Len(w) - i + 1])
          started   == {pair(i) : i \in (1..k) \ failed}
      IN
      /\ \A j \in 0..(k - 1) : ~full(j)
      /\ k = Len(p) \/ k = Len(w) \/ full(k)
      /\ pending' = SubSeq(p, k + 1, Len(p))
      /\ idle' = SubSeq(w, 1, Len(w) - k)
      /\ starting' = starting \cup started
      /\ toClient' = ct_start_stream_send(started)
      /\ openS' = openS \ WorkOf({pair(i) : i \in failed})

\* REF_ACCEPT.  All connections come from the client's address.
Accept ==
    /\ backlog # <<>>
    /\ backlog' = Tail(backlog)
    /\ IF Cardinality(incoming) >= PerAddress
       THEN /\ openS' = openS \ {Head(backlog)} /\ lost' = lost + 1
            /\ UNCHANGED incoming
       ELSE incoming' = incoming \cup {Head(backlog)} /\ UNCHANGED <<openS, lost>>
    /\ UNCHANGED <<cvars, server, idle, pending, starting, srelays, requests, toServer,
                   toClient, openC, broken, faults, seen, dialled>>

\* REF_INCOMING, WORK_CONNECTION_BIND.
Bind(w) ==
    /\ w \in incoming /\ incoming' = incoming \ {w}
    /\ IF server = "active" /\ Len(idle) < MAX_STREAMS
       THEN match_pending(pending, Append(idle, w)) /\ UNCHANGED lost
       ELSE /\ openS' = openS \ {w} /\ lost' = lost + 1
            /\ UNCHANGED <<idle, pending, starting, toClient>>
    /\ UNCHANGED <<cvars, server, backlog, srelays, requests, toServer, openC, broken,
                   faults, seen, dialled>>

\* The connection is broken, or its handshake_timeout passes before the BIND
\* is there.
IncomingClosed(w) ==
    /\ w \in incoming /\ incoming' = incoming \ {w}
    /\ \/ DeadAtServer(w) /\ UNCHANGED faults
       \/ faults > 0 /\ faults' = faults - 1
    /\ openS' = openS \ {w} /\ lost' = lost + 1
    /\ UNCHANGED <<cvars, server, backlog, idle, pending, starting, srelays, requests,
                   toServer, toClient, openC, broken, seen, dialled>>

active_streams == Len(pending) + Cardinality(starting) + Cardinality(srelays)

\* Faulty: REQUEST_WORK_CONNECTION is sent for the first pending stream only.
AskForWorkOnce ==
    IF idle # <<>> \/ pending # <<>> THEN UNCHANGED <<requests, faults, lost>>
    ELSE requests' = requests + 1 /\ UNCHANGED <<faults, lost>>

\* REQUEST_WORK_CONNECTION is sent if no work connection is idle; a failure
\* is ignored.
AskForWork ==
    IF idle # <<>> THEN UNCHANGED <<requests, faults, lost>>
    ELSE \/ requests' = requests + 1 /\ UNCHANGED <<faults, lost>>
         \/ faults > 0 /\ faults' = faults - 1 /\ lost' = lost + 1 /\ UNCHANGED requests

\* REF_SERVICE: a user connects, and is queued or closed at once.
ServiceAccept(u) ==
    /\ server = "active" /\ u \notin seen
    /\ seen' = seen \cup {u}
    /\ IF Len(pending) < PendingLimit /\ active_streams < StreamLimit
       THEN AskForWork /\ match_pending(Append(pending, u), idle)
       ELSE UNCHANGED <<pending, idle, starting, toClient, openS, requests, faults, lost>>
    /\ UNCHANGED <<cvars, server, backlog, incoming, srelays, toServer, openC, broken,
                   dialled>>

\* REF_STARTING, STREAM_READY for this stream: the relay is set up, or
\* ct_relay_init fails and both sockets go.
StartingReady(s) ==
    /\ s \in starting /\ Len(toServer[s.work]) > 0
    /\ Head(toServer[s.work]) = [kind |-> "STREAM_READY", user |-> s.user]
    /\ starting' = starting \ {s}
    /\ toServer' = [toServer EXCEPT ![s.work] = Tail(@)]
    /\ \/ /\ Cardinality(srelays) < MAX_STREAMS
          /\ srelays' = srelays \cup {s} /\ UNCHANGED openS
       \/ openS' = openS \ {s.work} /\ UNCHANGED srelays
    /\ UNCHANGED <<cvars, server, backlog, incoming, idle, pending, requests, toClient,
                   openC, broken, faults, history>>

\* remove_starting with both sockets closed.
DropStarting(s) ==
    /\ s \in starting /\ starting' = starting \ {s}
    /\ openS' = openS \ {s.work}
    /\ UNCHANGED <<cvars, server, backlog, incoming, idle, pending, srelays, requests,
                   toServer, toClient, openC, broken, faults, history>>

\* REF_STARTING: STREAM_FAILED, an answer for another stream, or the
\* connection is lost.
StartingFails(s) ==
    /\ DropStarting(s)
    /\ \/ DeadAtServer(s.work)
       \/ /\ Len(toServer[s.work]) > 0
          /\ Head(toServer[s.work]) # [kind |-> "STREAM_READY", user |-> s.user]

\* The deadline of a starting stream.
ExpireStarting(u) == \E s \in starting : s.user = u /\ DropStarting(s)

\* The deadline of a pending stream: the last one takes its place.
ExpirePending(u) ==
    /\ \E i \in DOMAIN pending :
         /\ pending[i] = u
         /\ pending' = SubSeq([pending EXCEPT ![i] = pending[Len(pending)]],
                              1, Len(pending) - 1)
    /\ UNCHANGED <<cvars, server, backlog, incoming, idle, starting, srelays, net, history>>

\* A relay event that ends the stream.
ServerRelayEnds(s) ==
    /\ s \in srelays
    /\ srelays' = srelays \ {s} /\ openS' = openS \ {s.work}
    /\ UNCHANGED <<cvars, server, backlog, incoming, idle, pending, starting, requests,
                   toServer, toClient, openC, broken, faults, history>>

\* peer_close.
ServerEnds ==
    /\ server = "active" /\ server' = "ended"
    /\ pending' = <<>> /\ idle' = <<>> /\ starting' = {} /\ srelays' = {}
    /\ openS' = openS \ (Elements(idle) \cup WorkOf(starting) \cup WorkOf(srelays))
    /\ UNCHANGED <<cvars, backlog, incoming, requests, toServer, toClient, openC, broken,
                   faults, history>>
-----------------------------------------------------------------------------
\* A work connection breaks; each end finds out on its own.
Break(w) ==
    /\ faults > 0 /\ w \in (openC \cap openS) \ broken
    /\ broken' = broken \cup {w} /\ faults' = faults - 1
    /\ UNCHANGED <<cvars, svars, requests, toServer, toClient, openC, openS, history>>

Streams == [user : Users, work : Conns]

Next ==
    \/ Registered \/ RequestDropped \/ Request \/ LocalRefused \/ LocalConnected \/ ClientEnds
    \/ Accept \/ ServerEnds
    \/ \E w \in Conns : IdleLost(w) \/ StartStream(w) \/ Bind(w) \/ IncomingClosed(w) \/ Break(w)
    \/ \E u \in Users : ServiceAccept(u) \/ ExpirePending(u) \/ ExpireStarting(u)
    \/ \E s \in crelays : ClientRelayEnds(s)
    \/ \E s \in starting : StartingReady(s) \/ StartingFails(s)
    \/ \E s \in srelays : ServerRelayEnds(s)

\* The server's clock runs, the client's connect to the local service times
\* out, an end whose control channel is gone closes its session, and a relay
\* with one half gone ends, for the application behind it closes after an
\* end of file.
Fairness ==
    /\ \A u \in Users : WF_vars(ExpirePending(u)) /\ WF_vars(ExpireStarting(u))
    /\ WF_vars(LocalRefused \/ LocalConnected)
    /\ WF_vars(server = "ended" /\ ClientEnds) /\ WF_vars(client = "ended" /\ ServerEnds)
    /\ \A s \in Streams :
         /\ WF_vars(DeadAtClient(s.work) /\ ClientRelayEnds(s))
         /\ WF_vars(DeadAtServer(s.work) /\ ServerRelayEnds(s))

Spec == Init /\ [][Next]_vars /\ Fairness
-----------------------------------------------------------------------------
(***************************************************************************)
(* Properties.                                                             *)
(***************************************************************************)

\* Every variable has its type, and no array of either program overflows.
TypeOK ==
    /\ client \in {"registering", "running", "ended"} /\ server \in {"active", "ended"}
    /\ pool \subseteq Conns /\ Cardinality(pool) <= MAX_STREAMS
    /\ dialing \subseteq Streams /\ Cardinality(dialing) <= 1
    /\ crelays \subseteq Streams /\ Cardinality(crelays) <= MAX_STREAMS
    /\ made \in 0..MaxConns
    /\ backlog \in Seq(Conns) /\ incoming \subseteq Conns
    /\ idle \in Seq(Conns) /\ Len(idle) <= MAX_STREAMS
    /\ pending \in Seq(Users) /\ Len(pending) <= MAX_PENDING
    /\ starting \subseteq Streams /\ Cardinality(starting) <= MAX_PENDING
    /\ srelays \subseteq Streams /\ Cardinality(srelays) <= MAX_STREAMS
    /\ requests \in Nat /\ faults \in 0..MaxFaults /\ lost \in Nat
    /\ toClient \in [Conns -> Seq(Users)]
    /\ toServer \in [Conns -> Seq([kind : {"STREAM_READY", "STREAM_FAILED"}, user : Users])]
    /\ openC \subseteq Conns /\ openS \subseteq Conns /\ broken \subseteq Conns
    /\ seen \subseteq Users /\ dialled \subseteq Users

\* Every open end of a work connection is held in exactly one place of its
\* program, and only by it: none leaks and none is used after it was closed.
EndsHeld ==
    LET held(w) == Cardinality({s \in starting : s.work = w})
                   + Cardinality({s \in srelays : s.work = w})
                   + Cardinality({i \in DOMAIN idle : idle[i] = w})
                   + Cardinality({i \in DOMAIN backlog : backlog[i] = w})
                   + Cardinality({w} \cap incoming)
        ours(w) == Cardinality({s \in dialing \cup crelays : s.work = w})
                   + Cardinality({w} \cap pool)
    IN \A w \in Conns : /\ held(w) = Cardinality({w} \cap openS)
                        /\ ours(w) = Cardinality({w} \cap openC)

\* The two programs agree about each work connection that both still hold:
\* one idle on the server is idle on the client with no stream on the way,
\* and one that carries a stream carries the same user's at both ends.
EndsAgree ==
    LET live(w) == w \in openC /\ w \notin broken IN
    /\ \A i \in DOMAIN idle :
         live(idle[i]) => idle[i] \in pool /\ toClient[idle[i]] = <<>>
    /\ \A s \in starting : live(s.work) =>
         \/ s.work \in pool /\ toClient[s.work] = <<s.user>>
         \/ s \in dialing
         \/ s \in crelays /\ toServer[s.work] = Message("STREAM_READY", s)
    /\ \A s \in srelays : live(s.work) => s \in crelays
    /\ \A s \in starting \cup srelays, c \in dialing \cup crelays :
         s.work = c.work => s.user = c.user

\* No wakeup is lost: for every pending stream a request or a new connection
\* is on its way, but for those that a failure or a limit cost.
Awaited ==
    server = "active" =>
      Len(pending) <= requests + Len(backlog) + Cardinality(incoming) + lost

\* Users are served as module StreamService promises: joined at most once,
\* to a local connection made for them, and never left waiting.
Service ==
    INSTANCE StreamService WITH
      ext <- [u \in Users |->
                IF u \in Elements(pending) \cup UsersOf(starting) THEN "waiting"
                ELSE IF u \in UsersOf(srelays) THEN "joined"
                ELSE IF u \in seen THEN "closed" ELSE "new"],
      loc <- [u \in Users |->
                IF u \in UsersOf(crelays) THEN "open"
                ELSE IF u \in dialled THEN "closed" ELSE "none"]

\* The tunnel implements StreamService.
ServesUsers == Service!Spec
==============================================================================
