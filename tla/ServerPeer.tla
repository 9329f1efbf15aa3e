------------------------------ MODULE ServerPeer -----------------------------
(***************************************************************************)
(* The life of the streams of one authenticated client on the server       *)
(* (server_peer in server/server.c).  An external connection is accepted   *)
(* into pending[], paired with an idle work connection into starting[]     *)
(* when START_STREAM is sent, and becomes a relay when STREAM_READY comes  *)
(* back.  The server is one thread: each iteration of ct_run_server polls, *)
(* dispatches the batch of ready events one by one, then expires what is   *)
(* overdue.                                                                *)
(*                                                                         *)
(* File descriptors are numbers, and a new one is the lowest that is free, *)
(* so that a number closed by one handler is reused by the next.  Times    *)
(* are kept as the time left, in units of one loop iteration.  The data    *)
(* plane of a relay is module Relay; here an event of a relay leaves it    *)
(* open or closes it.                                                      *)
(***************************************************************************)
EXTENDS Integers, Sequences, FiniteSets

CONSTANTS
    MAX_STREAMS,     \* CONFIG_MAX_STREAMS: MAX_RELAYS and MAX_WORK
    MAX_PENDING,     \* CONFIG_MAX_PENDING_STREAMS
    StreamLimit,     \* the lesser of auth->max_streams and max_streams_per_client
    PendingLimit,    \* max_pending_streams
    MAX_INCOMING,
    Timeout,         \* connect_timeout
    MaxLag,          \* bound: time one batch may take
    MaxFd            \* bound: file descriptors (RLIMIT_NOFILE)

\* ct_config_validate and ct_authorized_load keep the configured limits
\* within the compiled ones.
ASSUME PeerAssumption ==
    /\ MAX_STREAMS \in Nat \ {0} /\ MAX_PENDING \in Nat \ {0}
    /\ StreamLimit \in 1..MAX_STREAMS
    /\ PendingLimit \in 1..MAX_PENDING
    /\ MAX_INCOMING \in Nat /\ Timeout \in Nat
    /\ MaxLag \in Nat /\ MaxFd \in Nat

Fds   == 1..MaxFd
Slots == 1..MAX_STREAMS
Free  == [direct |-> 0, work |-> 0]

VARIABLES
    ctl,        \* p->ctl.fd, 0 when the peer is not active
    listener,   \* the listener of p's service, 0 before it is registered
    incoming,   \* fds of incoming[]
    pending,    \* p->pending: <<[fd, left], ...>>, oldest first
    work,       \* p->work: fds of idle work connections, a stack
    starting,   \* p->starting: the order of the array carries no meaning
    relays,     \* p->relays, by slot; a closed one is Free
    open,       \* fds open in the process
    misclosed,  \* the last handler called close() on an fd that was not open
    phase,      \* "poll" or "dispatch"
    batch,      \* refs of the current batch not dispatched yet
    lag         \* time since `now` was read for the batch

vars == <<ctl, listener, incoming, pending, work, starting, relays, open, misclosed,
          phase, batch, lag>>

Lesser(a, b) == IF a < b THEN a ELSE b

\* p->active
active == ctl # 0

OpenRelays == {j \in Slots : relays[j] # Free}

\* active_streams
active_streams == Len(pending) + Cardinality(starting) + Cardinality(OpenRelays)

\* accept returns the lowest free descriptor, if any is free.
NewFd == CHOOSE f \in Fds \ open : \A g \in Fds \ open : f <= g

\* Faulty: a starting stream is not counted until it is a relay.
AdmittedEarly ==
    /\ Len(pending) < PendingLimit /\ Len(pending) # MAX_PENDING
    /\ Len(pending) + Cardinality(OpenRelays) < StreamLimit

\* The limits an external connection has to pass.
Admitted ==
    /\ Len(pending) < PendingLimit /\ Len(pending) # MAX_PENDING
    /\ active_streams < StreamLimit

\* Faulty: remove_starting forgets the work connection.
DroppedDirectOnly(S) == {s.direct : s \in S}

\* The sockets closed with the starting streams of S (remove_starting with
\* close_sockets set).
Dropped(S) == {s.direct : s \in S} \cup {s.work : s \in S}

\* ct_socket_close on each of fds, opened being the fds newly opened.
CloseAll(opened, fds) ==
    /\ open' = (open \cup opened) \ fds
    /\ misclosed' = ~(fds \subseteq open \cup opened)

NoneClosed == open' = open /\ misclosed' = FALSE

Init ==
    /\ ctl = 0 /\ listener = 0
    /\ incoming = {} /\ pending = <<>> /\ work = <<>> /\ starting = {}
    /\ relays = [j \in Slots |-> Free]
    /\ open = {} /\ misclosed = FALSE
    /\ phase = "poll" /\ batch = {} /\ lag = 0
-----------------------------------------------------------------------------
(***************************************************************************)
(* The loop: registration, time.                                           *)
(***************************************************************************)

\* The refs rebuilt at the head of every iteration.  Idle work connections
\* are not polled.
Refs ==
    {<<"accept", 0>>}
    \cup {<<"incoming", f>> : f \in incoming}
    \cup (IF active THEN {<<"control", 0>>} ELSE {})
    \cup (IF listener # 0 THEN {<<"service", 0>>} ELSE {})
    \cup {<<"starting", s.work>> : s \in starting}
    \cup {<<"direct", j>> : j \in OpenRelays}
    \cup {<<"work", j>> : j \in OpenRelays}

\* event_loop_wait.  Which of the refs are ready, and in which order they are
\* reported, is open: a ref that is not dispatched before the batch ends was
\* not ready.
Poll ==
    /\ phase = "poll"
    /\ phase' = "dispatch" /\ batch' = Refs /\ lag' = 0
    /\ NoneClosed
    /\ UNCHANGED <<ctl, listener, incoming, pending, work, starting, relays>>

Older(left) == IF left > -1 THEN left - 1 ELSE -1

Tick ==
    /\ phase = "dispatch" => lag < MaxLag
    /\ lag' = IF phase = "dispatch" THEN lag + 1 ELSE lag
    /\ pending' = [i \in DOMAIN pending |-> [pending[i] EXCEPT !.left = Older(@)]]
    /\ starting' = {[s EXCEPT !.left = Older(@)] : s \in starting}
    /\ NoneClosed
    /\ UNCHANGED <<ctl, listener, incoming, work, relays, phase, batch>>

Take(r) == phase = "dispatch" /\ r \in batch /\ batch' = batch \ {r} /\ UNCHANGED <<phase, lag>>
-----------------------------------------------------------------------------
(***************************************************************************)
(* match_pending and peer_close.                                           *)
(***************************************************************************)

\* match_pending, called with pending = p and work = w.  Iteration i pairs
\* the i-th pending stream with the i-th work connection from the top of the
\* stack; START_STREAM cannot be sent in the iterations of failed, and both
\* sockets are closed.  The loop goes on while starting[] has room.
match_pending(p, w, opened) ==
    \E k \in 0..Lesser(Len(p), Len(w)) : \E failed \in SUBSET (1..k) :
      LET full(j) == Cardinality(starting) + Cardinality((1..j) \ failed) >= MAX_PENDING
          top(i)  == w[Len(w) - i + 1]
      IN
      /\ \A j \in 0..(k - 1) : ~full(j)
      /\ k = Len(p) \/ k = Len(w) \/ full(k)
      /\ pending' = SubSeq(p, k + 1, Len(p))
      /\ work' = SubSeq(w, 1, Len(w) - k)
      /\ starting' = starting \cup
            {[direct |-> p[i].fd, work |-> top(i), left |-> Timeout] : i \in (1..k) \ failed}
      /\ CloseAll(opened, {p[i].fd : i \in failed} \cup {top(i) : i \in failed})

\* Faulty: the listener is closed even if no service was registered.
SocketsUnchecked ==
    {ctl, listener} \cup {pending[i].fd : i \in DOMAIN pending}
    \cup {work[i] : i \in DOMAIN work} \cup Dropped(starting)
    \cup {relays[j].direct : j \in OpenRelays} \cup {relays[j].work : j \in OpenRelays}

\* Every socket of the session.
Sockets ==
    {ctl} \cup ({listener} \ {0}) \cup {pending[i].fd : i \in DOMAIN pending}
    \cup {work[i] : i \in DOMAIN work} \cup Dropped(starting)
    \cup {relays[j].direct : j \in OpenRelays} \cup {relays[j].work : j \in OpenRelays}

\* peer_close: the session's sockets are closed and the peer cleared, after
\* the sockets of late.
peer_close(late) ==
    /\ ctl' = 0 /\ listener' = 0
    /\ pending' = <<>> /\ work' = <<>> /\ starting' = {}
    /\ relays' = [j \in Slots |-> Free]
    /\ CloseAll({}, late \cup Sockets)
-----------------------------------------------------------------------------
(***************************************************************************)
(* The handlers of one batch.                                              *)
(***************************************************************************)

\* REF_ACCEPT: a connection on the control port.
AcceptControl ==
    /\ Take(<<"accept", 0>>)
    /\ open # Fds
    /\ IF Cardinality(incoming) = MAX_INCOMING
       THEN UNCHANGED incoming /\ NoneClosed
       ELSE incoming' = incoming \cup {NewFd} /\ CloseAll({NewFd}, {})
    /\ UNCHANGED <<ctl, listener, pending, work, starting, relays>>

\* Faulty: the size of work[] is not checked.
IncomingBindUnchecked(f) ==
    /\ Take(<<"incoming", f>>)
    /\ f \in incoming /\ active
    /\ incoming' = incoming \ {f}
    /\ match_pending(pending, Append(work, f), {})
    /\ UNCHANGED <<ctl, listener, relays>>

\* Faulty: the new work connection waits for the next accept.
IncomingBindUnmatched(f) ==
    /\ Take(<<"incoming", f>>)
    /\ f \in incoming /\ active
    /\ incoming' = incoming \ {f}
    /\ IF Len(work) = MAX_STREAMS
       THEN CloseAll({}, {f}) /\ UNCHANGED work
       ELSE work' = Append(work, f) /\ CloseAll({}, {})
    /\ UNCHANGED <<ctl, listener, pending, starting, relays>>

\* REF_INCOMING, WORK_CONNECTION_BIND: the connection joins the work pool.
IncomingBind(f) ==
    /\ Take(<<"incoming", f>>)
    /\ f \in incoming /\ active
    /\ incoming' = incoming \ {f}
    /\ IF Len(work) = MAX_STREAMS
       THEN CloseAll({}, {f}) /\ UNCHANGED <<pending, work, starting>>
       ELSE match_pending(pending, Append(work, f), {})
    /\ UNCHANGED <<ctl, listener, relays>>

\* REF_INCOMING: the first frame, the bind or the authentication is refused,
\* or the connection is lost.
IncomingRejected(f) ==
    /\ Take(<<"incoming", f>>)
    /\ f \in incoming
    /\ incoming' = incoming \ {f}
    /\ CloseAll({}, {f})
    /\ UNCHANGED <<ctl, listener, pending, work, starting, relays>>

\* REF_INCOMING, CLIENT_AUTH: the connection becomes the control channel of
\* the peer.
IncomingAuthenticated(f) ==
    /\ Take(<<"incoming", f>>)
    /\ f \in incoming /\ ~active
    /\ incoming' = incoming \ {f}
    /\ ctl' = f
    /\ NoneClosed
    /\ UNCHANGED <<listener, pending, work, starting, relays>>

\* REF_CONTROL, REGISTER_SERVICE: the listener is opened.
ServiceRegistered ==
    /\ Take(<<"control", 0>>)
    /\ active /\ listener = 0 /\ open # Fds
    /\ listener' = NewFd
    /\ CloseAll({NewFd}, {})
    /\ UNCHANGED <<ctl, incoming, pending, work, starting, relays>>

\* REF_CONTROL: the control channel is lost, says GOAWAY or misbehaves.
ControlLost ==
    /\ Take(<<"control", 0>>)
    /\ active
    /\ peer_close({})
    /\ UNCHANGED incoming

\* REF_SERVICE: an external connection is accepted and queued, or closed at
\* once because a limit is reached or its addresses cannot be read.
ServiceAccept ==
    /\ Take(<<"service", 0>>)
    /\ listener # 0 /\ open # Fds
    /\ \/ Admitted /\ match_pending(Append(pending, [fd |-> NewFd, left |-> Timeout - lag]),
                                     work, {NewFd})
       \/ UNCHANGED <<pending, work, starting>> /\ NoneClosed
    /\ UNCHANGED <<ctl, listener, incoming, relays>>

\* REF_STARTING, STREAM_READY: the first closed slot becomes the relay.
StartingReady(f) ==
    /\ Take(<<"starting", f>>)
    /\ \E s \in starting, j \in Slots \ OpenRelays :
          /\ s.work = f
          /\ \A i \in Slots \ OpenRelays : j <= i
          /\ relays' = [relays EXCEPT ![j] = [direct |-> s.direct, work |-> s.work]]
          /\ starting' = starting \ {s}
    /\ NoneClosed
    /\ UNCHANGED <<ctl, listener, incoming, pending, work>>

\* REF_STARTING: the client refuses the stream or the connection is lost, or
\* no relay slot is free.
StartingFails(f) ==
    /\ Take(<<"starting", f>>)
    /\ \E s \in starting :
          /\ s.work = f
          /\ starting' = starting \ {s}
          /\ CloseAll({}, Dropped({s}))
    /\ UNCHANGED <<ctl, listener, incoming, pending, work, relays>>

\* REF_STARTING, STREAM_READY, but ct_relay_init fails: its ct_relay_close
\* closes both sockets, and remove_starting closes them again.
StartingInitFails(f) ==
    /\ Take(<<"starting", f>>)
    /\ \E s \in starting :
          /\ s.work = f
          /\ OpenRelays # Slots
          /\ starting' = starting \ {s}
          /\ open' = open \ {s.direct, s.work}
          /\ misclosed' = TRUE
    /\ UNCHANGED <<ctl, listener, incoming, pending, work, relays>>

\* A relay event that ends the stream; one that does not changes nothing
\* here.  It acts on whatever relay the slot holds by now.
RelayCloses(side, j) ==
    /\ Take(<<side, j>>)
    /\ side \in {"direct", "work"}
    /\ j \in OpenRelays
    /\ relays' = [relays EXCEPT ![j] = Free]
    /\ CloseAll({}, {relays[j].direct, relays[j].work})
    /\ UNCHANGED <<ctl, listener, incoming, pending, work, starting>>
-----------------------------------------------------------------------------
(***************************************************************************)
(* The end of an iteration.                                                *)
(***************************************************************************)

\* The loop that drops the elements outside keep by moving the last element
\* into the hole: the holes among the first Cardinality(keep) places are
\* filled from the back.
SwapRemove(seq, keep) ==
    LET kth(k)  == CHOOSE q \in keep : Cardinality({r \in keep : r >= q}) = k
        hole(j) == Cardinality({h \in 1..j : h \notin keep})
    IN [j \in 1..Cardinality(keep) |-> IF j \in keep THEN seq[j] ELSE seq[kth(hole(j))]]

LivePending  == {i \in DOMAIN pending : pending[i].left >= 0}
LiveStarting == {s \in starting : s.left > 0}

\* Expiry of incoming[], pending[] and starting[].
Expire(late) ==
    /\ incoming' = incoming \ late
    /\ pending' = SwapRemove(pending, LivePending)
    /\ starting' = LiveStarting
    /\ CloseAll({}, late
          \cup {pending[i].fd : i \in DOMAIN pending \ LivePending}
          \cup Dropped(starting \ LiveStarting))
    /\ UNCHANGED <<ctl, listener, work, relays>>

EndBatch ==
    /\ phase = "dispatch"
    /\ phase' = "poll" /\ batch' = {} /\ lag' = 0
    /\ \E late \in SUBSET incoming :
          \/ Expire(late)
          \* The heartbeat is overdue, or PING cannot be sent.
          \/ active /\ peer_close(late) /\ incoming' = incoming \ late

Next ==
    \/ Poll \/ Tick \/ EndBatch
    \/ AcceptControl \/ ServiceRegistered \/ ControlLost \/ ServiceAccept
    \/ \E f \in Fds : \/ IncomingBind(f) \/ IncomingRejected(f) \/ IncomingAuthenticated(f)
                      \/ StartingReady(f) \/ StartingFails(f) \/ StartingInitFails(f)
    \/ \E side \in {"direct", "work"}, j \in Slots : RelayCloses(side, j)

Spec == Init /\ [][Next]_vars
-----------------------------------------------------------------------------
(***************************************************************************)
(* Properties.                                                             *)
(***************************************************************************)

\* Every variable has its type, and no array of the peer is written past its
\* end.
TypeOK ==
    /\ ctl \in 0..MaxFd /\ listener \in 0..MaxFd
    /\ incoming \subseteq Fds
    /\ pending \in Seq([fd : Fds, left : Int]) /\ Len(pending) <= MAX_PENDING
    /\ work \in Seq(Fds) /\ Len(work) <= MAX_STREAMS
    /\ starting \subseteq [direct : Fds, work : Fds, left : Int]
    /\ IsFiniteSet(starting) /\ Cardinality(starting) <= MAX_PENDING
    /\ relays \in [Slots -> [direct : 0..MaxFd, work : 0..MaxFd]]
    /\ open \subseteq Fds
    /\ misclosed \in BOOLEAN
    /\ phase \in {"poll", "dispatch"}
    /\ lag \in Nat

\* The streams of a client never exceed its limits, in whatever stage they
\* are.
WithinLimits ==
    /\ Len(pending) + Cardinality(starting) + Cardinality(OpenRelays) <= StreamLimit
    /\ Len(pending) <= PendingLimit

\* How often fd f is held by the arrays of the server.
Held(f) ==
    (IF f = ctl THEN 1 ELSE 0) + (IF f = listener THEN 1 ELSE 0)
    + (IF f \in incoming THEN 1 ELSE 0)
    + Cardinality({i \in DOMAIN pending : pending[i].fd = f})
    + Cardinality({i \in DOMAIN work : work[i] = f})
    + Cardinality({s \in starting : s.direct = f}) + Cardinality({s \in starting : s.work = f})
    + Cardinality({j \in OpenRelays : relays[j].direct = f})
    + Cardinality({j \in OpenRelays : relays[j].work = f})

\* Every open descriptor has exactly one owner and a closed one has none,
\* after every handler: nothing leaks and nothing is used after its close.
OneOwner == \A f \in Fds : Held(f) = IF f \in open THEN 1 ELSE 0

\* No handler closes a descriptor that is not open, whatever failed before,
\* but for the one path where ct_relay_init fails.
ClosedTwiceByInit == [][misclosed' => \E f \in Fds : StartingInitFails(f)]_vars

\* While starting[] cannot fill up (StreamLimit <= MAX_PENDING), a pending
\* stream never waits next to an idle work connection.
NoIdlePair == StreamLimit <= MAX_PENDING => pending = <<>> \/ work = <<>>
==============================================================================
