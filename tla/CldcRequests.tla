---------------------------- MODULE CldcRequests ----------------------------
(***************************************************************************)
(* What the CLD client library promises its application about requests   *)
(* and handles (spec.md, "Outgoing message" and "Session expiry"), as an  *)
(* abstract specification CldcSession is shown to implement.              *)
(*                                                                         *)
(* A request goes unsent -> pending -> answered -> freed, or straight     *)
(* from pending to freed (expiry, kill).  Its completion callback runs at *)
(* most once, and only as the request leaves pending: never for a request *)
(* already answered or freed.  A handle goes none -> opening -> open ->   *)
(* closed and never comes back.  Any number of requests and handles may   *)
(* move in one step (sess_expire fails them all at once).                 *)
(***************************************************************************)
CONSTANTS Reqs, Handles

VARIABLES status, calls, hstate

\* The moves one request may make in a step: its status and the number of
\* times its callback has run, before and after.
ReqMove(s, c, s2, c2) ==
    \/ s2 = s /\ c2 = c
    \/ s = "unsent"   /\ s2 = "pending"  /\ c2 = c
    \/ s = "pending"  /\ s2 \in {"answered", "freed"} /\ c = 0 /\ c2 \in {0, 1}
    \/ s = "answered" /\ s2 = "freed"    /\ c2 = c

HandleMove(h, h2) ==
    \/ h2 = h
    \/ h = "none"    /\ h2 = "opening"
    \/ h = "opening" /\ h2 = "open"
    \/ h = "open"    /\ h2 = "closed"

Init ==
    /\ status = [x \in Reqs |-> "unsent"]
    /\ calls = [x \in Reqs |-> 0]
    /\ hstate = [i \in Handles |-> "none"]

Next ==
    /\ \A x \in Reqs : ReqMove(status[x], calls[x], status'[x], calls'[x])
    /\ \A i \in Handles : HandleMove(hstate[i], hstate'[i])
    /\ DOMAIN status' = Reqs /\ DOMAIN calls' = Reqs /\ DOMAIN hstate' = Handles

Spec == Init /\ [][Next]_<<status, calls, hstate>>

====
