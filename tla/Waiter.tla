------------------------------- MODULE Waiter -------------------------------
(***************************************************************************)
(* The four waits of numspot/helpers.go.  Each polls the service whenever  *)
(* its ticker fires, until the object is where it should be, cannot get    *)
(* there any more, the timeout fires or the context is done.  The loop's   *)
(* select takes any of the channels that are ready.  The ticker's channel  *)
(* holds one tick: those that come while a call is out are dropped.        *)
(***************************************************************************)
EXTENDS Naturals

CONSTANTS
    Interval,       \* of the ticker, in units of time
    Timeout,        \* after which the wait gives up
    Latencies       \* how long the service may take to answer, at most

ASSUME WaitAssumption ==
    /\ Interval \in Nat \ {0}
    /\ Timeout \in Nat \ {0}
    /\ Latencies \subseteq Nat

VARIABLES
    kind,           \* which of the waits
    latency,        \* the bound for this service, one of Latencies
    object,         \* the state of the VM or the image
    pc,             \* where the wait is, or what it returned
    answer,         \* what the service made of the call that is out
    age,            \* how long that call has been out
    phase,          \* time until the ticker fires
    tick,           \* a tick is in the ticker's channel
    left,           \* time until the timeout; 0 once it has fired
    interrupted,    \* the context is done
    seen,           \* history: states of the object since the wait began
    steady,         \* history: since when it has been in one that decides
    late            \* history: since when the timeout has fired, up to more
                    \* than latency

constants == <<kind, latency>>
timers == <<phase, tick, left>>
history == <<seen, steady, late>>
vars == <<constants, object, pc, answer, age, timers, interrupted, history>>

Kinds == {"running", "stopped", "deleted", "image"}

(***************************************************************************)
(* The service.                                                            *)
(***************************************************************************)
VmMoves ==
    {<<"pending", "running">>, <<"pending", "terminated">>,
     <<"running", "stopping">>, <<"running", "quarantine">>,
     <<"running", "shutting-down">>, <<"stopping", "stopped">>,
     <<"stopping", "terminated">>, <<"stopped", "shutting-down">>,
     <<"shutting-down", "terminated">>, <<"terminated", "unknown">>}

ImageMoves ==
    {<<"pending", "available">>, <<"pending", "error">>,
     <<"available", "unknown">>}

Moves == IF kind = "image" THEN ImageMoves ELSE VmMoves

States == {"pending", "running", "stopping", "stopped", "shutting-down",
           "terminated", "quarantine", "unknown", "available", "error"}

\* What the callers have asked of the service before they wait.
FirstStates ==
    [running |-> {"pending"}, stopped |-> {"running", "stopping"},
     deleted |-> {"running", "shutting-down"}, image |-> {"pending"}]

\* The states that end the wait: as the comments of the four functions say.
Awaited ==
    [running |-> {"running"}, stopped |-> {"stopped"},
     deleted |-> {"terminated", "unknown"}, image |-> {"available"}]

Fatal ==
    [running |-> {"terminated", "quarantine"},
     stopped |-> {"terminated", "quarantine"},
     deleted |-> {}, image |-> {"error"}]

Decisive == Awaited[kind] \cup Fatal[kind]

(***************************************************************************)
(* The checks of an answer.  An object that is unknown is answered by 404, *)
(* which has no state in it.                                               *)
(***************************************************************************)
\* Success taken for granted when there is nothing to read the state from.
CheckVMDeletedLoose(a) ==
    IF a \in {"unknown", "refused", "terminated"} THEN "done" ELSE "select"

\* The 404 taken for a refusal.
CheckVMDeletedListed(a) == IF a = "terminated" THEN "done" ELSE "select"

CheckVMDeleted(a) ==
    IF a \in {"unknown", "terminated"} THEN "done" ELSE "select"

CheckVMStateReached(a, target) ==
    IF a = target THEN "done"
    ELSE IF a \in {"terminated", "quarantine"} THEN "unexpected" ELSE "select"

CheckImageAvailable(a) ==
    IF a = "available" THEN "done"
    ELSE IF a = "error" THEN "unexpected" ELSE "select"

Check(a) ==
    IF kind = "deleted" THEN CheckVMDeleted(a)
    ELSE IF kind = "image" THEN CheckImageAvailable(a)
    ELSE CheckVMStateReached(a, kind)

(***************************************************************************)
(* The loop.                                                               *)
(***************************************************************************)
Init ==
    /\ kind \in Kinds
    /\ latency \in Latencies
    /\ object \in FirstStates[kind]
    /\ pc = "start"
    /\ answer = "none"
    /\ age = 0
    /\ phase = Interval
    /\ tick = FALSE
    /\ left = Timeout
    /\ interrupted = FALSE
    /\ seen = {object}
    /\ steady = 0
    /\ late = 0

Waiting == pc \in {"start", "select", "call"}

\* The ticker and the timer run when the id of the space is parsed.
Start ==
    /\ pc = "start"
    /\ pc' \in {"select", "failed"}
    /\ UNCHANGED <<constants, object, answer, age, timers, interrupted, history>>

\* The timeout made anew in every turn of the loop.
PollAnew ==
    /\ pc = "select"
    /\ tick
    /\ tick' = FALSE
    /\ left' = Timeout
    /\ pc' = "call"
    /\ answer' = "none"
    /\ age' = 0
    /\ UNCHANGED <<constants, object, phase, interrupted, history>>

Poll ==
    /\ pc = "select"
    /\ tick
    /\ tick' = FALSE
    /\ pc' = "call"
    /\ answer' = "none"
    /\ age' = 0
    /\ UNCHANGED <<constants, object, phase, left, interrupted, history>>

TimeOut ==
    /\ pc = "select"
    /\ left = 0
    /\ pc' = "timeout"
    /\ UNCHANGED <<constants, object, answer, age, timers, interrupted, history>>

SeeCancel ==
    /\ pc = "select"
    /\ interrupted
    /\ pc' = "cancelled"
    /\ UNCHANGED <<constants, object, answer, age, timers, interrupted, history>>

\* The service takes the call up; it may refuse it, or have no state to tell.
Serve ==
    /\ pc = "call"
    /\ answer = "none"
    /\ ~interrupted
    /\ \/ answer' = object /\ UNCHANGED steady
       \/ answer' = "refused" /\ steady' = 0
    /\ UNCHANGED <<constants, object, pc, age, timers, interrupted, seen, late>>

\* After an answer that tells nothing, the next call at once.
ReceiveAndRetry ==
    /\ pc = "call"
    /\ answer # "none"
    /\ IF answer = "refused"
         THEN UNCHANGED pc /\ answer' = "none" /\ age' = 0
         ELSE pc' = Check(answer) /\ UNCHANGED <<answer, age>>
    /\ UNCHANGED <<constants, object, timers, interrupted, history>>

\* The state of an answer without one dereferenced.
ReceiveUnguarded ==
    /\ pc = "call"
    /\ answer # "none"
    /\ pc' = IF answer \in {"refused", "unknown"} THEN "crash" ELSE Check(answer)
    /\ UNCHANGED <<constants, object, answer, age, timers, interrupted, history>>

Receive ==
    /\ pc = "call"
    /\ answer # "none"
    /\ pc' = Check(answer)
    /\ UNCHANGED <<constants, object, answer, age, timers, interrupted, history>>

\* A call that breaks, as every call does once the context is done.
Break ==
    /\ pc = "call"
    /\ pc' = "failed"
    /\ UNCHANGED <<constants, object, answer, age, timers, interrupted, history>>

(***************************************************************************)
(* The surroundings: the service, the user, the clock.                     *)
(***************************************************************************)
Change ==
    /\ Waiting
    /\ \E s \in States :
         /\ <<object, s>> \in Moves
         /\ object' = s
         /\ seen' = seen \cup {s}
         /\ steady' = IF s \in Decisive THEN steady ELSE 0
    /\ UNCHANGED <<constants, pc, answer, age, timers, interrupted, late>>

Interrupt ==
    /\ Waiting
    /\ ~interrupted
    /\ interrupted' = TRUE
    /\ UNCHANGED <<constants, object, pc, answer, age, timers, history>>

\* Nothing is ready to be done: the goroutine does not dawdle, the service
\* keeps its latency, and a done context ends the call.
Idle ==
    \/ pc = "select" /\ ~tick /\ left # 0 /\ ~interrupted
    \/ pc = "call" /\ age < latency /\ ~interrupted

Pass ==
    /\ Idle
    /\ phase' = IF phase = 1 THEN Interval ELSE phase - 1
    /\ tick' = (tick \/ phase = 1)
    /\ left' = IF left = 0 THEN 0 ELSE left - 1
    /\ age' = IF pc = "call" THEN age + 1 ELSE age
    /\ steady' = IF object \in Decisive THEN steady + 1 ELSE 0
    /\ late' = IF left = 0 /\ late <= latency THEN late + 1 ELSE late
    /\ UNCHANGED <<constants, object, pc, answer, interrupted, seen>>

Finished == ~Waiting /\ UNCHANGED vars

Loop == Start \/ Poll \/ TimeOut \/ SeeCancel \/ Receive \/ Break

Next == Loop \/ Serve \/ Change \/ Interrupt \/ Pass \/ Finished

\* The loop runs, calls end, time passes; select is fair to its cases.
Fairness ==
    /\ WF_vars(Loop)
    /\ WF_vars(Pass)
    /\ SF_vars(TimeOut)
    /\ SF_vars(SeeCancel)

Spec == Init /\ [][Next]_vars /\ Fairness

(***************************************************************************)
(* Properties.                                                             *)
(***************************************************************************)
Answers == {"done", "unexpected", "failed", "timeout", "cancelled"}

TypeOK ==
    /\ kind \in Kinds
    /\ latency \in Latencies
    /\ object \in States
    /\ pc \in {"start", "select", "call"} \cup Answers
    /\ answer \in {"none", "refused"} \cup States
    /\ age \in 0 .. latency
    /\ phase \in 1 .. Interval
    /\ tick \in BOOLEAN
    /\ left \in 0 .. Timeout
    /\ interrupted \in BOOLEAN
    /\ seen \subseteq States
    /\ steady \in Nat
    /\ late \in 0 .. latency + 1

\* While the service answers within one interval, the wait outlasts its
\* timeout by no more than one call, though select may prefer a tick to it.
EndsInTime == Waiting /\ latency < Interval => late <= latency

\* An object that stays where the wait is decided, while the service refuses
\* nothing, is noticed within an interval and two calls, though ticks are
\* dropped and a call may have looked just before.
DecisionNoticed == Waiting => steady <= Interval + 2 * latency

\* The wait implements WaitPromise.
Sorted ==
    {s \in {"awaited", "fatal"} :
        \/ s = "awaited" /\ seen \cap Awaited[kind] # {}
        \/ s = "fatal" /\ seen \cap Fatal[kind] # {}}

Promise == INSTANCE WaitPromise
    WITH seen <- Sorted,
         expired <- left = 0,
         cancelled <- interrupted,
         answer <- IF Waiting THEN "none" ELSE pc

\* The wait answers once, and its answer is true of the object, of the clock
\* or of the context, though it may have changed since it was read.
PromiseKept == Promise!Spec

\* The wait ends though the object never changes and the service answers
\* so slowly that a tick is always there.
Ends == <>~Waiting
=============================================================================
