----------------------------- MODULE UdpSessions -----------------------------
(***************************************************************************)
(* The pseudo-sessions that carry UDP through a tunnel (server/server.c    *)
(* and client/client.c).  The server opens one for every external endpoint *)
(* that sends to a UDP service and numbers it from next_stream; the client *)
(* opens its half, with a local socket of its own, when the first datagram *)
(* of an unknown session arrives.  Both halves expire on their own when    *)
(* they are idle.  The datagrams travel as control messages: in order and  *)
(* without loss, but with a delay.                                         *)
(*                                                                         *)
(* The payload is left out.  rx_high and rx_bitmap are the set of the      *)
(* sequence numbers accepted (ReplayWindow proves the bitmap exact for a   *)
(* window within its width).  last_ms is kept as the time idle.            *)
(***************************************************************************)
EXTENDS Integers, Sequences, FiniteSets

CONSTANTS
    Services,          \* the UDP services registered
    Peers,             \* external endpoints
    MAX_UDP_SESSIONS,  \* CONFIG_MAX_UDP_SESSIONS, the size of both tables
    Limit,             \* udp_max_sessions of each service
    IdleTimeout,       \* udp_idle_timeout
    Window,            \* CONFIG_UDP_REPLAY_WINDOW
    MaxId,             \* bound: ids taken from next_stream
    MaxSeq,            \* bound: datagrams each way in a session
    MaxQueue           \* bound: datagrams on their way

\* register_service refuses limits outside 1..CONFIG_MAX_UDP_SESSIONS.
ASSUME UdpAssumption ==
    /\ MAX_UDP_SESSIONS \in Nat \ {0}
    /\ Limit \in [Services -> 1..MAX_UDP_SESSIONS]
    /\ IdleTimeout \in Nat /\ Window \in Nat \ {0}
    /\ MaxId \in Nat /\ MaxSeq \in Nat /\ MaxQueue \in Nat

VARIABLES
    s_udp,        \* p->udp: the active entries, [id, svc, peer, tx, seen, idle]
    c_udp,        \* the client's table, likewise
    next_stream,  \* p->next_stream since authentication, shared with the TCP streams
    down, up,     \* UDP_DATAGRAM messages to the client and to the server
    opened        \* history: the sessions the server opened, [id, svc, peer]

vars == <<s_udp, c_udp, next_stream, down, up, opened>>

Key(r) == [id |-> r.id, svc |-> r.svc, peer |-> r.peer]

\* A new entry of a table, and the message of sequence number n from it.
Session(id, v, q)  == [id |-> id, svc |-> v, peer |-> q, tx |-> 0, seen |-> {}, idle |-> 0]
Datagram(r, n)     == [id |-> r.id, svc |-> r.svc, peer |-> r.peer, seq |-> n]

\* udp_replay_accept
Fresh(r, n) ==
    \/ \A k \in r.seen : n > k
    \/ n \notin r.seen /\ \A k \in r.seen : k - n < Window

Init ==
    /\ s_udp = {} /\ c_udp = {}
    /\ next_stream = 0
    /\ down = <<>> /\ up = <<>>
    /\ opened = {}
-----------------------------------------------------------------------------
(***************************************************************************)
(* The server.                                                             *)
(***************************************************************************)

\* Faulty: one session too many.
AdmitsOneMore(table, v) == Cardinality(table) <= Limit[v]

\* Faulty: only the size of the table counts.
AdmitsAnySlot(table, v) == Cardinality(table) < MAX_UDP_SESSIONS

\* server_udp_create and client_udp_create: the sessions of all services
\* together are held against the limit of v, and a slot must be free.
Admits(table, v) == Cardinality(table) < Limit[v] /\ Cardinality(table) < MAX_UDP_SESSIONS

\* Faulty: the id is the next stream's, but the stream counter stays behind.
TakeIdUncounted == UNCHANGED next_stream

\* id = ++p->next_stream
TakeId == next_stream' = next_stream + 1

\* Faulty: the datagram is numbered from the session as it was created.
ForwardUncounted(s) ==
    /\ s_udp' = (s_udp \ {s}) \cup {[s EXCEPT !.idle = 0]}
    /\ down' = Append(down, Datagram(s, s.tx + 1))

\* The datagram joins session s and goes to the client.
Forward(s) ==
    /\ s_udp' = (s_udp \ {s}) \cup {[s EXCEPT !.tx = @ + 1, !.idle = 0]}
    /\ down' = Append(down, Datagram(s, s.tx + 1))

\* Faulty: endpoints never compare equal, as endpoint_equal has it for a
\* family it does not know.
server_udp_find_none(v, q) == {}

\* server_udp_find
server_udp_find(v, q) == {s \in s_udp : s.svc = v /\ s.peer = q}

\* server_udp_from_external: a datagram of q for v, within the size limit.
\* It is dropped when no session can be created for it.
server_udp_from_external(v, q) ==
    /\ Len(down) < MaxQueue
    /\ \/ /\ \E s \in server_udp_find(v, q) : s.tx < MaxSeq /\ Forward(s)
          /\ UNCHANGED <<next_stream, opened>>
       \/ /\ server_udp_find(v, q) = {}
          /\ Admits(s_udp, v)
          /\ next_stream < MaxId
          /\ TakeId
          /\ opened' = opened \cup {[id |-> next_stream + 1, svc |-> v, peer |-> q]}
          /\ Forward(Session(next_stream + 1, v, q))
    /\ UNCHANGED <<c_udp, up>>

\* start_relay_begin: a TCP stream takes the next id.
StreamStarts ==
    /\ next_stream < MaxId
    /\ next_stream' = next_stream + 1
    /\ UNCHANGED <<s_udp, c_udp, down, up, opened>>

\* Accepted on session r of table t: marked and, with the send to the
\* socket, no longer idle.
Accepted(t, r, n) == (t \ {r}) \cup {[r EXCEPT !.seen = @ \cup {n}, !.idle = 0]}

\* server_udp_from_client: a reply is sent to the endpoint of its session,
\* or dropped when the session is gone, is another's or saw the number.
server_udp_from_client ==
    /\ up # <<>>
    /\ LET m == Head(up) IN
       \/ \E s \in s_udp : Key(s) = Key(m) /\ Fresh(s, m.seq) /\ s_udp' = Accepted(s_udp, s, m.seq)
       \/ (\A s \in s_udp : Key(s) = Key(m) => ~Fresh(s, m.seq)) /\ UNCHANGED s_udp
    /\ up' = Tail(up)
    /\ UNCHANGED <<c_udp, next_stream, down, opened>>

Expired(table) == {r \in table : r.idle > IdleTimeout}

\* server_udp_expire, at the end of an iteration.
server_udp_expire ==
    /\ Expired(s_udp) # {}
    /\ s_udp' = s_udp \ Expired(s_udp)
    /\ UNCHANGED <<c_udp, next_stream, down, up, opened>>
-----------------------------------------------------------------------------
(***************************************************************************)
(* The client.                                                             *)
(***************************************************************************)

\* client_udp_from_server: a datagram goes to the local service through the
\* socket of its session, which is created if need be.
client_udp_from_server ==
    /\ down # <<>>
    /\ LET m     == Head(down)
           known == {c \in c_udp : c.id = m.id}
           new   == Session(m.id, m.svc, m.peer)
       IN
       \/ /\ \E c \in known : /\ Key(c) = Key(m) /\ Fresh(c, m.seq)
                              /\ c_udp' = Accepted(c_udp, c, m.seq)
       \/ (\E c \in known : Key(c) # Key(m) \/ ~Fresh(c, m.seq)) /\ UNCHANGED c_udp
       \/ known = {} /\ Admits(c_udp, m.svc) /\ c_udp' = Accepted(c_udp, new, m.seq)
       \* No session: over the limit, or no local socket.
       \/ known = {} /\ UNCHANGED c_udp
    /\ down' = Tail(down)
    /\ UNCHANGED <<s_udp, next_stream, up, opened>>

\* client_udp_from_local: the local service sends on the socket of c, in
\* answer or not.
client_udp_from_local(c) ==
    /\ c.tx < MaxSeq /\ Len(up) < MaxQueue
    /\ c_udp' = (c_udp \ {c}) \cup {[c EXCEPT !.tx = @ + 1, !.idle = 0]}
    /\ up' = Append(up, Datagram(c, c.tx + 1))
    /\ UNCHANGED <<s_udp, next_stream, down, opened>>

\* client_udp_expire and client_udp_close
client_udp_expire ==
    /\ Expired(c_udp) # {}
    /\ c_udp' = c_udp \ Expired(c_udp)
    /\ UNCHANGED <<s_udp, next_stream, down, up, opened>>
-----------------------------------------------------------------------------
\* The session ends: a datagram cannot be sent to its socket or to the
\* control channel, or the channel is lost.  peer_close and the end of
\* client_session clear both tables; the next session starts anew.
SessionEnds ==
    /\ vars # <<{}, {}, 0, <<>>, <<>>, {}>>
    /\ s_udp' = {} /\ c_udp' = {}
    /\ next_stream' = 0
    /\ down' = <<>> /\ up' = <<>>
    /\ opened' = {}

\* Beyond the timeout the time idle makes no difference.
Aged(idle)   == IF idle > IdleTimeout THEN idle ELSE idle + 1
Older(table) == {[r EXCEPT !.idle = Aged(@)] : r \in table}

Tick ==
    /\ s_udp' = Older(s_udp) /\ c_udp' = Older(c_udp)
    /\ UNCHANGED <<next_stream, down, up, opened>>

Next ==
    \/ \E v \in Services, q \in Peers : server_udp_from_external(v, q)
    \/ StreamStarts \/ server_udp_from_client \/ server_udp_expire
    \/ client_udp_from_server \/ (\E c \in c_udp : client_udp_from_local(c)) \/ client_udp_expire
    \/ SessionEnds \/ Tick

Spec == Init /\ [][Next]_vars
-----------------------------------------------------------------------------
(***************************************************************************)
(* Properties.                                                             *)
(***************************************************************************)

Entries  == [id : Nat, svc : Services, peer : Peers, tx : Nat, seen : SUBSET Nat, idle : Nat]
Messages == [id : Nat, svc : Services, peer : Peers, seq : Nat]

\* Both tables fit in their arrays, and every variable has its type.
TypeOK ==
    /\ s_udp \subseteq Entries /\ IsFiniteSet(s_udp) /\ Cardinality(s_udp) <= MAX_UDP_SESSIONS
    /\ c_udp \subseteq Entries /\ IsFiniteSet(c_udp) /\ Cardinality(c_udp) <= MAX_UDP_SESSIONS
    /\ next_stream \in Nat
    /\ down \in Seq(Messages) /\ up \in Seq(Messages)
    /\ opened \subseteq [id : Nat, svc : Services, peer : Peers]

\* Everything that names a session: both tables and all datagrams on the way.
Named == s_udp \cup c_udp \cup {down[i] : i \in DOMAIN down} \cup {up[i] : i \in DOMAIN up}

\* An id is given out once, and both tables and every datagram on its way
\* agree on the service and endpoint it stands for, however the two halves
\* expire and come back: a reply can only go to the endpoint that the local
\* service answered.
Agreement ==
    /\ \A r \in Named : Key(r) \in opened
    /\ \A j, k \in opened : j.id = k.id => j = k

\* An endpoint has one session per service, and an id one entry per table.
OneSession ==
    /\ \A r, s \in s_udp : r.svc = s.svc /\ r.peer = s.peer => r = s
    /\ \A r, s \in s_udp : r.id = s.id => r = s
    /\ \A r, s \in c_udp : r.id = s.id => r = s

\* The client never takes a datagram of the server for a replay or for one
\* of another session, even after its own half expired and came back.
RequestsFresh ==
    \A i \in DOMAIN down : \A c \in c_udp :
        c.id = down[i].id => Key(c) = Key(down[i]) /\ Fresh(c, down[i].seq)

\* A reply that finds its session at the server is not taken for a replay.
RepliesFresh ==
    \A i \in DOMAIN up : \A s \in s_udp :
        s.id = up[i].id => Fresh(s, up[i].seq)

\* No service has more sessions than it allows, at either end.
WithinSessionLimit ==
    \A v \in Services : /\ Cardinality({s \in s_udp : s.svc = v}) <= Limit[v]
                        /\ Cardinality({c \in c_udp : c.svc = v}) <= Limit[v]
==============================================================================
