---------------------------- MODULE WaitPromise -----------------------------
(***************************************************************************)
(* What a wait owes the step that called it.  It answers once: "done" only *)
(* if the object has been in an awaited state since the wait began,        *)
(* "unexpected" only if it has been in one that leads nowhere, "timeout"   *)
(* only when the time is up, "cancelled" only when the caller gave up.     *)
(***************************************************************************)
VARIABLES
    seen,       \* the sorts of state the object has been in
    expired,    \* the time is up
    cancelled,  \* the caller gave up
    answer      \* "none", or what the wait returned

pvars == <<seen, expired, cancelled, answer>>

Sorts == {"awaited", "fatal"}

Init ==
    /\ seen \in SUBSET Sorts
    /\ expired = FALSE
    /\ cancelled = FALSE
    /\ answer = "none"

Answer(a) == answer = "none" /\ answer' = a /\ UNCHANGED <<seen, expired, cancelled>>

Succeed == "awaited" \in seen /\ Answer("done")

GiveUp == "fatal" \in seen /\ Answer("unexpected")

TimeOut == expired /\ Answer("timeout")

HeedCancel == cancelled /\ Answer("cancelled")

\* A call failed.
Fail == Answer("failed")

\* The object changes, or time passes, or the caller gives up.
Outside ==
    /\ seen' \in SUBSET Sorts /\ seen \subseteq seen'
    /\ expired' \in {expired, TRUE}
    /\ cancelled' \in {cancelled, TRUE}
    /\ UNCHANGED answer

Next == Succeed \/ GiveUp \/ TimeOut \/ HeedCancel \/ Fail \/ Outside

Spec == Init /\ [][Next]_pvars
=============================================================================
