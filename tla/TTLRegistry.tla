----------------------------- MODULE TTLRegistry -----------------------------
(***************************************************************************)
(* What the geerpc registry promises its clients, without its map or its   *)
(* sweep: every POST records the time of a server's last heartbeat, and a  *)
(* GET returns exactly the servers whose last POST is less than the        *)
(* timeout old (every server that ever POSTed when the timeout is 0).      *)
(***************************************************************************)
EXTENDS Naturals

CONSTANTS Servers, TTL, MaxTime

VARIABLES
    now,        \* the clock
    last,       \* last[s]: the time of s's last POST, for the servers that POSTed
    listed      \* the servers the last GET returned

Fresh(s) == s \in DOMAIN last /\ (TTL = 0 \/ now < last[s] + TTL)

Init == now = 0 /\ last = [s \in {} |-> 0] /\ listed = {}

Post(s) ==
    /\ last' = [x \in DOMAIN last \cup {s} |-> IF x = s THEN now ELSE last[x]]
    /\ UNCHANGED <<now, listed>>

Get ==
    /\ listed' = {s \in Servers : Fresh(s)}
    /\ UNCHANGED <<now, last>>

Tick ==
    /\ now < MaxTime
    /\ now' = now + 1
    /\ UNCHANGED <<last, listed>>

Next == (\E s \in Servers : Post(s)) \/ Get \/ Tick

Spec == Init /\ [][Next]_<<now, last, listed>>
=============================================================================
