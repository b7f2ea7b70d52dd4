----------------------------- MODULE CallPromise ----------------------------
(***************************************************************************)
(* What a step may rely on when it makes one call: the service executes it *)
(* at most once, though perhaps after the step has given it up; and a step *)
(* that looks at the data of the answer goes on only after an execution.   *)
(* These are the outcomes of a call in Build: accepted, refused (which     *)
(* only a step that looks at the data notices), failed, and executed with  *)
(* the answer lost.                                                        *)
(***************************************************************************)
EXTENDS Naturals

VARIABLES
    strict,         \* the step looks at the data of the answer
    executed,       \* how often the service has executed the call
    heard           \* "nothing", "done" or "failed"

pvars == <<strict, executed, heard>>

Init ==
    /\ strict \in BOOLEAN
    /\ executed = 0
    /\ heard = "nothing"

Execute ==
    /\ executed = 0
    /\ executed' = 1
    /\ UNCHANGED <<strict, heard>>

Hear ==
    /\ heard = "nothing"
    /\ \/ heard' = "failed"
       \/ heard' = "done" /\ (strict => executed = 1)
    /\ UNCHANGED <<strict, executed>>

Next == Execute \/ Hear

Spec == Init /\ [][Next]_pvars
=============================================================================
