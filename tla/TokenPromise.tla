---------------------------- MODULE TokenPromise ----------------------------
(***************************************************************************)
(* What the goroutines of a build may rely on when they share a client: a  *)
(* token granted to one that asked is not about to expire, and a token     *)
(* that is fresh is kept, so that the service issues no more of them than  *)
(* the passing of time requires.                                           *)
(***************************************************************************)
EXTENDS Naturals

CONSTANTS
    Callers,
    Margin,         \* a token is fresh if it lives longer than this
    Slack           \* what a granted token may fall short of the margin

VARIABLES
    now,
    token,          \* when the shared token expires
    asked,          \* callers that wait for a token
    granted         \* when the token a caller has expires, 0 if it has none

pvars == <<now, token, asked, granted>>

Init ==
    /\ now \in Nat
    /\ token \in Nat
    /\ now + Margin <= token + Slack
    /\ asked = {}
    /\ granted = [c \in Callers |-> 0]

Ask(c) ==
    /\ c \notin asked
    /\ granted[c] = 0
    /\ asked' = asked \cup {c}
    /\ UNCHANGED <<now, token, granted>>

\* The token granted may be one that was shared a moment ago.
Grant(c) ==
    /\ c \in asked
    /\ asked' = asked \ {c}
    /\ \E t \in 0 .. token :
         /\ now + Margin <= t + Slack
         /\ granted' = [granted EXCEPT ![c] = t]
    /\ UNCHANGED <<now, token>>

Refuse(c) ==
    /\ c \in asked
    /\ asked' = asked \ {c}
    /\ UNCHANGED <<now, token, granted>>

GiveBack(c) ==
    /\ granted' = [granted EXCEPT ![c] = 0]
    /\ UNCHANGED <<now, token, asked>>

Renew ==
    /\ now + Margin > token
    /\ token' \in Nat
    /\ token' > token
    /\ UNCHANGED <<now, asked, granted>>

Tick ==
    /\ now' = now + 1
    /\ UNCHANGED <<token, asked, granted>>

Next ==
    \/ \E c \in Callers : Ask(c) \/ Grant(c) \/ Refuse(c) \/ GiveBack(c)
    \/ Renew
    \/ Tick

Spec == Init /\ [][Next]_pvars
=============================================================================
