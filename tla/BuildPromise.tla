---------------------------- MODULE BuildPromise ----------------------------
(***************************************************************************)
(* What a build promises to the user who pays for its resources: it holds  *)
(* some while it works, answers once, and holds none when it answers.  An  *)
(* artifact means that an image was published, an error that none stays.   *)
(***************************************************************************)
CONSTANT Resource           \* what a build may hold

VARIABLES held, image, outcome

pvars == <<held, image, outcome>>

Init ==
    /\ held = {}
    /\ image = "none"
    /\ outcome = "working"

Acquire ==
    /\ outcome = "working"
    /\ \E r \in Resource \ held : held' = held \cup {r}
    /\ UNCHANGED <<image, outcome>>

Release ==
    /\ \E gone \in SUBSET held : held' = held \ gone
    /\ UNCHANGED <<image, outcome>>

Publish ==
    /\ outcome = "working"
    /\ image = "none"
    /\ image' = "published"
    /\ UNCHANGED <<held, outcome>>

Withdraw ==
    /\ outcome = "working"
    /\ image = "published"
    /\ image' = "withdrawn"
    /\ UNCHANGED <<held, outcome>>

Answer ==
    /\ outcome = "working"
    /\ held = {}
    /\ \/ image # "none" /\ outcome' = "artifact"
       \/ image # "published" /\ outcome' = "error"
    /\ UNCHANGED <<held, image>>

Next == Acquire \/ Release \/ Publish \/ Withdraw \/ Answer

Spec == Init /\ [][Next]_pvars

TypeOK ==
    /\ held \subseteq Resource
    /\ image \in {"none", "published", "withdrawn"}
    /\ outcome \in {"working", "artifact", "error"}
=============================================================================
