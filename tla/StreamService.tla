----------------------------- MODULE StreamService ---------------------------
(***************************************************************************)
(* What the tunnel promises to the users of one service during a session,  *)
(* whatever its work connections, requests and deadlines do.  A user is    *)
(* admitted once; the client dials the local service at most once for it;  *)
(* the two are joined only while the user waits and after the dial         *)
(* succeeded; and nobody waits for ever.                                   *)
(***************************************************************************)
CONSTANT Users

VARIABLES
    ext,    \* each user's connection: "new", "waiting", "joined" or "closed"
    loc     \* the local connection dialled for it: "none", "open" or "closed"

vars == <<ext, loc>>

Init == ext = [u \in Users |-> "new"] /\ loc = [u \in Users |-> "none"]

Admit(u) == ext[u] = "new" /\ ext' = [ext EXCEPT ![u] = "waiting"] /\ UNCHANGED loc

\* A service over its limits closes the connection at once.
Refuse(u) == ext[u] = "new" /\ ext' = [ext EXCEPT ![u] = "closed"] /\ UNCHANGED loc

\* The dial may come after the user was given up.
Dial(u) ==
    /\ ext[u] \in {"waiting", "closed"} /\ loc[u] = "none"
    /\ loc' = [loc EXCEPT ![u] = "open"] /\ UNCHANGED ext

DialAborted(u) ==
    /\ ext[u] \in {"waiting", "closed"} /\ loc[u] = "none"
    /\ loc' = [loc EXCEPT ![u] = "closed"] /\ UNCHANGED ext

Join(u) ==
    /\ ext[u] = "waiting" /\ loc[u] # "none"
    /\ ext' = [ext EXCEPT ![u] = "joined"] /\ UNCHANGED loc

HangUp(u) ==
    /\ ext[u] \in {"waiting", "joined"}
    /\ ext' = [ext EXCEPT ![u] = "closed"] /\ UNCHANGED loc

LocalEnds(u) ==
    /\ loc[u] = "open"
    /\ loc' = [loc EXCEPT ![u] = "closed"] /\ UNCHANGED ext

\* The session ends on one of the two sides, which drops what it holds.
AllHangUp ==
    /\ ext' = [u \in Users |-> IF ext[u] \in {"waiting", "joined"} THEN "closed" ELSE ext[u]]
    /\ UNCHANGED loc

AllLocalEnd ==
    /\ loc' = [u \in Users |-> IF loc[u] = "open" THEN "closed" ELSE loc[u]]
    /\ UNCHANGED ext

Next ==
    \/ \E u \in Users : \/ Admit(u) \/ Refuse(u) \/ Dial(u) \/ DialAborted(u) \/ Join(u)
                        \/ HangUp(u) \/ LocalEnds(u)
    \/ AllHangUp \/ AllLocalEnd

\* A waiting user is joined or dropped, and a connection whose other half is
\* gone goes too.
Fairness ==
    \A u \in Users :
      /\ WF_vars(ext[u] = "waiting" /\ (Join(u) \/ HangUp(u) \/ AllHangUp))
      /\ WF_vars(ext[u] = "joined" /\ loc[u] = "closed" /\ (HangUp(u) \/ AllHangUp))
      /\ WF_vars(loc[u] = "open" /\ ext[u] = "closed" /\ (LocalEnds(u) \/ AllLocalEnd))

Spec == Init /\ [][Next]_vars /\ Fairness
==============================================================================
