------------------------------- MODULE Control -------------------------------
(***************************************************************************)
(* The control channel of a running session: its frames, their sequence    *)
(* numbers and the heartbeat, at both ends (ct_control_send,               *)
(* ct_control_recv and ct_frame_available in net/net.c; the loops of       *)
(* client/client.c and server/server.c).                                   *)
(*                                                                         *)
(* Each end is one thread.  An iteration waits for events, dispatches them *)
(* - which may block: in connect, in a send - reads at most one frame, and *)
(* then looks at the two clocks of the heartbeat.  Time is in ticks; the   *)
(* clocks are kept as the time since last_rx_ms and last_tx_ms.  A frame's *)
(* sequence number is kept as its distance from the frame before it on the *)
(* wire, 1 unless a send failed in between; the AEAD tag makes a frame     *)
(* whose bytes are mixed with another's unreadable.                        *)
(***************************************************************************)
EXTENDS Integers, Sequences, FiniteSets

CONSTANTS
    Interval,    \* heartbeat_interval
    Timeout,     \* heartbeat_timeout
    Block,       \* bound: the time a batch may take; event_loop_wait takes less than a tick
    Delay,       \* bound: the time a frame is on its way, unless the path is cut
    MaxQueue,    \* bound: frames on their way to one end when OTHER is sent
    MaxFaults    \* bound: failed sends and cuts

\* ct_config_validate: heartbeat_timeout must exceed interval.
ASSUME ControlAssumption ==
    /\ Interval \in Nat \ {0} /\ Timeout \in Nat /\ Timeout > Interval
    /\ Block \in Nat /\ Delay \in Nat
    /\ MaxQueue \in Nat \ {0} /\ MaxFaults \in Nat

Ends    == {"client", "server"}
Peer(e) == IF e = "client" THEN "server" ELSE "client"

VARIABLES
    open,      \* ends whose session is running
    wire,      \* frames on their way to each end: [kind, jump, late, age]
    inbox,     \* frames in the socket buffer of each end: [kind, jump, late]
    rx, tx,    \* time since last_rx_ms and last_tx_ms
    lag,       \* time spent on the batch
    event,     \* ends whose batch holds a REF_CONTROL event
    unsent,    \* by end, 1 if sequence numbers were used since the last frame to it, else 0
    cut,       \* nothing arrives any more
    faults,    \* faults still to come
    overdue,   \* history: ends that closed because the heartbeat was overdue
    missed,    \* history: ends to which a frame could not be sent as a whole
    torn,      \* history: ends that accepted a frame sent after such a one
    misread    \* history: a handler has read the descriptor of a closed peer

channel == <<wire, inbox, unsent, missed>>
vars    == <<open, channel, rx, tx, lag, event, cut, faults, overdue, torn, misread>>

Init ==
    /\ open = Ends
    /\ wire = [e \in Ends |-> <<>>] /\ inbox = [e \in Ends |-> <<>>]
    /\ unsent = [e \in Ends |-> 0]
    /\ rx = [e \in Ends |-> 0] /\ tx = [e \in Ends |-> 0]
    /\ lag = [e \in Ends |-> 0]
    /\ event = {} /\ cut = FALSE /\ faults = MaxFaults
    /\ overdue = {} /\ missed = {} /\ torn = {} /\ misread = FALSE
-----------------------------------------------------------------------------
(***************************************************************************)
(* Frames.                                                                 *)
(***************************************************************************)

\* The next frame to end e; it is late if one before it did not get out.
Frame(e, kind) ==
    [kind |-> kind, jump |-> 1 + unsent[e], late |-> e \in missed, age |-> 0]

\* ct_control_send to end e of a frame that leaves as a whole.  What is sent
\* to a closed end or over a cut path goes nowhere.
Sent(e, kind) ==
    IF cut \/ e \notin open THEN wire
    ELSE [wire EXCEPT ![e] = Append(@, Frame(e, kind))]

SendFrame(e, kind) ==
    /\ wire' = Sent(Peer(e), kind)
    /\ unsent' = [unsent EXCEPT ![Peer(e)] = 0]
    /\ tx' = [tx EXCEPT ![e] = 0]
    /\ UNCHANGED missed

\* ct_control_send fails: nothing, or only the start of the frame, left.
SendFails(e) ==
    LET p == Peer(e) IN
    /\ faults > 0 /\ faults' = faults - 1
    /\ unsent' = [unsent EXCEPT ![p] = 1]
    /\ missed' = missed \cup {p}
    /\ wire' \in {wire, Sent(p, "PARTIAL")}
    /\ UNCHANGED tx

\* Frames arrive in order, each in its own time.
Arrive(e) ==
    /\ wire[e] # <<>> /\ ~cut
    /\ LET f == Head(wire[e]) IN
       inbox' = [inbox EXCEPT ![e] =
                   Append(@, [kind |-> f.kind, jump |-> f.jump, late |-> f.late])]
    /\ wire' = [wire EXCEPT ![e] = Tail(@)]
    /\ UNCHANGED <<open, unsent, missed, rx, tx, lag, event, cut, faults, overdue, torn,
                   misread>>

\* The end stops: the other one finds GOAWAY or the end of the stream.  What
\* becomes of its event in the batch is up to the caller.
Stop(e) ==
    /\ open' = open \ {e}
    /\ wire' = [Sent(Peer(e), "GOAWAY") EXCEPT ![e] = <<>>]
    /\ inbox' = [inbox EXCEPT ![e] = <<>>]
-----------------------------------------------------------------------------
(***************************************************************************)
(* Time and the loop.                                                      *)
(***************************************************************************)

Tick ==
    /\ \A e \in open : lag[e] < Block
    /\ \A e \in open : \A i \in DOMAIN wire[e] : cut \/ wire[e][i].age < Delay
    /\ open # {}
    /\ lag' = [e \in Ends |-> IF e \in open THEN lag[e] + 1 ELSE lag[e]]
    /\ rx' = [e \in Ends |-> IF e \in open THEN rx[e] + 1 ELSE rx[e]]
    /\ tx' = [e \in Ends |-> IF e \in open THEN tx[e] + 1 ELSE tx[e]]
    /\ wire' = [e \in Ends |-> [i \in DOMAIN wire[e] |->
                  [wire[e][i] EXCEPT !.age = IF cut THEN @ ELSE @ + 1]]]
    /\ UNCHANGED <<open, inbox, unsent, missed, event, cut, faults, overdue, torn, misread>>

\* Faulty: the sequence number of a frame is not compared with rx_seq.
AcceptableUnchecked(f) == f.kind # "PARTIAL"

\* ct_control_recv takes a whole frame that bears the next sequence number.
Acceptable(f) == f.kind # "PARTIAL" /\ f.jump = 1

\* Faulty: PONG does not count as life of the peer.
HeardUnlessPong(e, f) == IF f.kind = "PONG" THEN rx ELSE [rx EXCEPT ![e] = 0]

\* last_rx_ms, once f is accepted.
Heard(e, f) == [rx EXCEPT ![e] = 0]

\* REF_CONTROL: a frame is complete and acceptable.
Receive(e) ==
    /\ e \in event \cap open /\ event' = event \ {e}
    /\ LET f == Head(inbox[e]) IN
       /\ Acceptable(f) /\ f.kind # "GOAWAY"
       /\ inbox' = [inbox EXCEPT ![e] = Tail(@)]
       /\ rx' = Heard(e, f)
       /\ torn' = IF f.late THEN torn \cup {e} ELSE torn
       /\ IF f.kind = "PING" THEN SendFrame(e, "PONG")
          ELSE UNCHANGED <<wire, unsent, missed, tx>>
    /\ UNCHANGED <<open, lag, cut, faults, overdue, misread>>

\* REF_CONTROL: the answer to an accepted frame, or what it carries, cannot be
\* sent.
AnswerFails(e) ==
    /\ e \in event \cap open /\ event' = event \ {e}
    /\ LET f == Head(inbox[e]) IN
       /\ Acceptable(f) /\ f.kind \in {"PING", "OTHER"}
       /\ torn' = IF f.late THEN torn \cup {e} ELSE torn
    /\ faults > 0 /\ faults' = faults - 1
    /\ Stop(e)
    /\ UNCHANGED <<unsent, missed, rx, tx, lag, cut, overdue, misread>>

\* REF_CONTROL: GOAWAY, a wrong sequence number, or the start of a lost frame
\* with other bytes behind it, which cannot be decrypted.
ReceiveEnds(e) ==
    /\ e \in event \cap open /\ event' = event \ {e}
    /\ LET f == Head(inbox[e]) IN
       \/ f.kind = "GOAWAY"
       \/ f.kind # "PARTIAL" /\ ~Acceptable(f)
       \/ f.kind = "PARTIAL" /\ Len(inbox[e]) > 1
    /\ Stop(e)
    /\ UNCHANGED <<unsent, missed, rx, tx, lag, cut, faults, overdue, torn, misread>>

\* ct_frame_available says that bytes are missing; it is asked again 50 ms
\* later.  What a lost frame's start announces may exceed what follows it.
ReceiveLater(e) ==
    /\ e \in event \cap open /\ event' = event \ {e}
    /\ Head(inbox[e]).kind = "PARTIAL"
    /\ UNCHANGED <<open, channel, rx, tx, lag, cut, faults, overdue, torn, misread>>

\* REF_CONTROL of a peer that an earlier event of the batch closed.  The handler
\* does not look at active: ct_frame_available peeks at ctl.fd, which is 0
\* after peer_close.  No connection of the session is there, and a second
\* peer_close does nothing.
StaleEvent(e) ==
    /\ e \in event \ open /\ event' = event \ {e}
    /\ misread' = TRUE
    /\ UNCHANGED <<open, channel, rx, tx, lag, cut, faults, overdue, torn>>

\* The handlers of other events send frames too.  A failure ends the session,
\* except that of REQUEST_WORK_CONNECTION.
SendOther(e) ==
    /\ e \in open
    /\ Len(wire[Peer(e)]) + Len(inbox[Peer(e)]) < MaxQueue
    /\ SendFrame(e, "OTHER")
    /\ UNCHANGED <<open, inbox, rx, lag, event, cut, faults, overdue, torn, misread>>

RequestFails ==
    /\ "server" \in open
    /\ SendFails("server")
    /\ UNCHANGED <<open, inbox, rx, lag, event, cut, overdue, torn, misread>>

\* Faulty: the client handles the rest of the batch as well.
SendOtherFailsGoesOn(e) ==
    /\ e \in open
    /\ faults > 0 /\ faults' = faults - 1
    /\ Stop(e)
    /\ UNCHANGED <<event, unsent, missed, rx, tx, lag, cut, overdue, torn, misread>>

\* The client leaves its loop and the batch with it; the server closes the peer
\* and goes on with the batch.
SendOtherFails(e) ==
    /\ e \in open
    /\ faults > 0 /\ faults' = faults - 1
    /\ Stop(e)
    /\ event' = IF e = "client" THEN event \ {e} ELSE event
    /\ UNCHANGED <<unsent, missed, rx, tx, lag, cut, overdue, torn, misread>>

PingDue(e) == tx[e] > Interval

\* Faulty: a peer that is late may answer one more PING.
OverdueAfterPing(e) == rx[e] > Timeout /\ ~PingDue(e)

Overdue(e) == rx[e] > Timeout

\* The end of an iteration and the start of the next: the heartbeat, and
\* event_loop_wait, after which the batch holds REF_CONTROL if there is
\* anything to read.
EndBatch(e) ==
    /\ e \in open /\ e \notin event
    /\ IF Overdue(e)
       THEN /\ Stop(e) /\ overdue' = overdue \cup {e}
            /\ UNCHANGED <<unsent, missed, tx, lag, event>>
       ELSE /\ lag' = [lag EXCEPT ![e] = 0]
            /\ IF PingDue(e) THEN SendFrame(e, "PING")
               ELSE UNCHANGED <<wire, unsent, missed, tx>>
            /\ event' = IF inbox[e] = <<>> THEN event ELSE event \cup {e}
            /\ UNCHANGED <<open, inbox, overdue>>
    /\ UNCHANGED <<rx, cut, faults, torn, misread>>

\* PING cannot be sent.
PingFails(e) ==
    /\ e \in open /\ e \notin event
    /\ ~Overdue(e) /\ PingDue(e)
    /\ faults > 0 /\ faults' = faults - 1
    /\ Stop(e)
    /\ UNCHANGED <<unsent, missed, rx, tx, lag, event, cut, overdue, torn, misread>>

\* The path is cut and neither end is told.
Cut ==
    /\ ~cut /\ faults > 0
    /\ cut' = TRUE /\ faults' = faults - 1
    /\ wire' = [e \in Ends |-> <<>>]
    /\ UNCHANGED <<open, inbox, unsent, missed, rx, tx, lag, event, overdue, torn, misread>>

Next ==
    \/ Tick \/ RequestFails \/ Cut
    \/ \E e \in Ends : \/ Arrive(e) \/ Receive(e) \/ AnswerFails(e) \/ ReceiveEnds(e)
                       \/ ReceiveLater(e) \/ StaleEvent(e) \/ SendOther(e)
                       \/ SendOtherFails(e) \/ EndBatch(e) \/ PingFails(e)

Spec == Init /\ [][Next]_vars
-----------------------------------------------------------------------------
(***************************************************************************)
(* Properties.                                                             *)
(***************************************************************************)

\* Every variable has its type.  The client, which leaves its loop when the
\* session ends, has no event of an ended session in its batch; the server
\* may have one.
TypeOK ==
    /\ open \subseteq Ends /\ event \subseteq open \cup {"server"}
    /\ \A e \in Ends :
         /\ rx[e] \in Nat /\ tx[e] \in Nat /\ lag[e] \in Nat
         /\ unsent[e] \in {0, 1}
         /\ \A i \in DOMAIN inbox[e] : inbox[e][i].jump \in {1, 2}
    /\ cut \in BOOLEAN /\ misread \in BOOLEAN /\ faults \in 0..MaxFaults
    /\ overdue \subseteq Ends \ open /\ missed \subseteq Ends /\ torn \subseteq Ends

\* What the timeout has to allow for: the peer is idle for the interval,
\* blocks before it sends PING, the frame is on its way, and this end blocks
\* before it reads it.
Ample == Timeout >= Interval + Delay + 2 * Block

\* Once a frame could not be sent as a whole, no later one is ever accepted,
\* although the failure of REQUEST_WORK_CONNECTION is ignored and the session
\* goes on: the first frame behind the gap ends it, and only that frame shows
\* the gap in its sequence number.
InOrder == torn = {}

\* If the timeout is ample, the heartbeat never ends a session whose path is
\* sound.
NoFalseTimeout == Ample /\ faults = MaxFaults => overdue = {}

\* An end that hears nothing, because the path is cut or a frame was lost,
\* closes within the timeout and one iteration.
NoticedInTime == \A e \in open : rx[e] <= Timeout + Block

\* An event of a connection that was closed earlier in the batch is ignored, as
\* docs/concurrency-and-lifecycle.md:38 has it.  The server's REF_CONTROL
\* handler neither looks its peer up nor tests a flag.
StaleIgnored == ~misread
==============================================================================
