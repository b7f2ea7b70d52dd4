----------------------------- MODULE WaitProofs -----------------------------
(***************************************************************************)
(* Proofs about the waits.  Of Waiter, for every interval, timeout and     *)
(* latency: it is type correct, ends in time, notices what is decided, and *)
(* implements WaitPromise.  Of PasswordWait: a build that goes on has its  *)
(* password, however helper, timeout and interrupt are interleaved.        *)
(***************************************************************************)
EXTENDS Waiter, MCPasswordWait, TLAPS

\* If calls are shorter than the interval, a tick is taken as it comes, and
\* none comes while a call is out.
TicksApart ==
    latency < Interval =>
        /\ pc = "start" => ~tick
        /\ pc = "select" /\ tick => phase = Interval
        /\ pc = "call" => ~tick /\ phase + age = Interval

\* Only a call that began by the timeout can be out after it.
LateOnlyInCall ==
    /\ left # 0 => late = 0
    /\ latency < Interval =>
        /\ pc = "select" /\ tick => late = 0
        /\ pc = "select" => late <= latency
        /\ pc = "start" => late = 0
        /\ pc = "call" => late <= age

\* How long the decision can be unnoticed, by where the wait is: a call that
\* has seen the object is about to end the wait, one that looked too early
\* has been out for longer than the decision stands.
Unnoticed ==
    /\ object \notin Decisive => steady = 0
    /\ pc = "start" => steady = 0
    /\ pc = "select" => steady <= latency + Interval
    /\ pc = "select" /\ ~tick => steady + phase <= latency + Interval
    /\ pc = "call" => steady <= latency + Interval + age
    /\ pc = "call" /\ answer # "none" /\ answer \notin Decisive
         => steady <= age

\* The history knows the object, and whatever was answered of it.
HistoryOK ==
    /\ object \in seen
    /\ pc = "call" /\ answer \in States => answer \in seen

WaitInv == TypeOK /\ TicksApart /\ LateOnlyInCall /\ Unnoticed /\ HistoryOK

\* What Check makes of an answer agrees with the states that decide.
LEMMA CheckDecides ==
  ASSUME kind \in Kinds, NEW a \in {"refused"} \cup States
  PROVE  /\ Check(a) \in {"select", "done", "unexpected"}
         /\ Check(a) = "done" => a \in Awaited[kind]
         /\ Check(a) = "unexpected" => a \in Fatal[kind]
         /\ Check(a) = "select" => a \notin Decisive
<1> USE DEF Check, CheckVMDeleted, CheckVMStateReached, CheckImageAvailable,
            Awaited, Fatal, Decisive
<1>1. CASE kind = "running"
  BY <1>1 DEF States
<1>2. CASE kind = "stopped"
  BY <1>2 DEF States
<1>3. CASE kind = "deleted"
  BY <1>3 DEF States
<1>4. CASE kind = "image"
  BY <1>4 DEF States
<1> QED
  BY <1>1, <1>2, <1>3, <1>4 DEF Kinds

LEMMA InitWait == Init => WaitInv
<1> SUFFICES ASSUME Init PROVE WaitInv
  OBVIOUS
<1>1. object \in States
  BY DEF Init, FirstStates, Kinds, States
<1>2. latency \in Nat /\ Interval \in Nat \ {0} /\ Timeout \in Nat \ {0}
  BY WaitAssumption DEF Init
<1>3. TypeOK
  <2>1. age \in 0 .. latency /\ late \in 0 .. latency + 1 /\ steady \in Nat
    BY <1>2 DEF Init
  <2>2. phase \in 1 .. Interval /\ left \in 0 .. Timeout
    BY <1>2 DEF Init
  <2> QED
    BY <1>1, <2>1, <2>2 DEF Init, TypeOK
<1> QED
  BY <1>1, <1>2, <1>3, WaitAssumption
  DEF Init, WaitInv, TicksApart, LateOnlyInCall, Unnoticed, HistoryOK, States

\* Each of the actions keeps the invariant.
LEMMA LoopKeepsInv ==
  ASSUME WaitInv, Loop PROVE WaitInv'
<1> USE WaitAssumption
    DEF WaitInv, TypeOK, TicksApart, LateOnlyInCall, Unnoticed, HistoryOK,
        constants, timers, history, Answers, Decisive
<1>0. latency \in Nat
  BY WaitAssumption DEF TypeOK
<1>1. CASE Start
  BY <1>0, <1>1 DEF Start
<1>2. CASE Poll
  <2>1. /\ pc = "select" /\ tick /\ pc' = "call" /\ tick' = FALSE
        /\ answer' = "none" /\ age' = 0
        /\ UNCHANGED <<kind, latency, object, phase, left, interrupted>>
        /\ UNCHANGED <<seen, steady, late>>
    BY <1>2 DEF Poll
  <2>2. TypeOK'
    <3>1. 0 \in 0 .. latency
      BY <1>0
    <3>2. age' \in 0 .. latency' /\ tick' \in BOOLEAN
      BY <2>1, <3>1, Zenon
    <3> QED
      BY <2>1, <3>2
  <2>3. TicksApart' /\ LateOnlyInCall'
    BY <1>0, <2>1
  <2>4. Unnoticed' /\ HistoryOK'
    BY <1>0, <2>1 DEF States
  <2> QED
    BY <2>2, <2>3, <2>4
<1>3. CASE TimeOut
  BY <1>0, <1>3 DEF TimeOut
<1>4. CASE SeeCancel
  BY <1>0, <1>4 DEF SeeCancel
<1>5. CASE Receive
  <2>1. /\ pc' \in {"select", "done", "unexpected"}
        /\ pc' = "select" => answer \notin Decisive
    BY <1>5, CheckDecides DEF Receive
  <2>2. pc = "call" /\ answer # "none"
    BY <1>5 DEF Receive
  <2>3. /\ UNCHANGED <<kind, latency, object, answer, age, phase, tick, left>>
        /\ UNCHANGED <<interrupted, seen, steady, late>>
    BY <1>5 DEF Receive
  <2> QED
    BY <1>0, <2>1, <2>2, <2>3
<1>6. CASE Break
  BY <1>0, <1>6 DEF Break
<1> QED
  BY <1>1, <1>2, <1>3, <1>4, <1>5, <1>6 DEF Loop

LEMMA PassKeepsInv ==
  ASSUME WaitInv, Pass PROVE WaitInv'
<1> USE WaitAssumption
<1>0. latency \in Nat /\ Interval \in Nat \ {0} /\ Timeout \in Nat \ {0}
  BY DEF WaitInv, TypeOK
<1>1. TypeOK'
  BY <1>0 DEF Pass, Idle, WaitInv, TypeOK, constants
<1>2. TicksApart'
  BY <1>0 DEF Pass, Idle, WaitInv, TypeOK, TicksApart, constants
<1>3. LateOnlyInCall'
  BY <1>0 DEF Pass, Idle, WaitInv, TypeOK, TicksApart, LateOnlyInCall, constants
<1>4. Unnoticed'
  <2>1. Decisive' = Decisive
    BY DEF Pass, constants, Decisive
  <2> HIDE DEF Decisive
  <2>2. CASE pc = "select"
    <3>1. /\ ~tick /\ pc' = "select" /\ latency' = latency
          /\ phase' = (IF phase = 1 THEN Interval ELSE phase - 1)
          /\ ~tick' => phase # 1
          /\ steady' = IF object \in Decisive THEN steady + 1 ELSE 0
          /\ object' = object
      BY <2>2 DEF Pass, Idle, constants, WaitInv, TypeOK
    <3>2. /\ steady \in Nat /\ phase \in 1 .. Interval
          /\ steady + phase <= latency + Interval
      BY <2>2, <3>1 DEF WaitInv, TypeOK, Unnoticed
    <3> QED
      BY <1>0, <2>1, <3>1, <3>2 DEF Unnoticed
  <2>3. CASE pc = "call"
    BY <1>0, <2>1, <2>3 DEF Pass, Idle, WaitInv, TypeOK, Unnoticed, constants
  <2> QED
    BY <2>2, <2>3 DEF Pass, Idle
<1>5. HistoryOK'
  BY DEF Pass, WaitInv, HistoryOK, constants
<1> QED
  BY <1>1, <1>2, <1>3, <1>4, <1>5 DEF WaitInv

LEMMA OutsideKeepsInv ==
  ASSUME WaitInv, Serve \/ Change \/ Interrupt PROVE WaitInv'
<1> USE WaitAssumption
    DEF WaitInv, TypeOK, TicksApart, LateOnlyInCall, Unnoticed, HistoryOK,
        constants, timers, history, Decisive
<1>0. latency \in Nat
  OBVIOUS
<1>1. CASE Serve
  <2>1. object \notin {"none", "refused"}
    BY DEF States
  <2>2. "refused" \notin Decisive /\ "refused" \notin States
    BY DEF Awaited, Fatal, Kinds, States
  <2> QED
    BY <1>0, <1>1, <2>1, <2>2 DEF Serve
<1>2. CASE Change
  BY <1>0, <1>2 DEF Change
<1>3. CASE Interrupt
  BY <1>0, <1>3 DEF Interrupt
<1> QED
  BY <1>1, <1>2, <1>3

LEMMA StepWait == WaitInv /\ [Next]_vars => WaitInv'
<1> SUFFICES ASSUME WaitInv, [Next]_vars PROVE WaitInv'
  OBVIOUS
<1>1. CASE Loop
  BY <1>1, LoopKeepsInv
<1>2. CASE Pass
  BY <1>2, PassKeepsInv
<1>3. CASE Serve \/ Change \/ Interrupt
  BY <1>3, OutsideKeepsInv
<1>4. CASE UNCHANGED vars
  BY <1>4 DEF vars, constants, timers, history, WaitInv, TypeOK, TicksApart,
              LateOnlyInCall, Unnoticed, HistoryOK, Decisive
<1> QED
  BY <1>1, <1>2, <1>3, <1>4 DEF Next, Finished

\* Every wait stays within its types; in particular it never panics.
THEOREM WaitTypeCorrect == Spec => []TypeOK
<1>1. WaitInv => TypeOK
  BY DEF WaitInv
<1> QED
  BY <1>1, InitWait, StepWait, PTL DEF Spec

\* No wait outlasts its timeout by more than one call, while calls are
\* shorter than the interval, whatever select prefers.
THEOREM WaitEndsInTime == Spec => []EndsInTime
<1>1. WaitInv => EndsInTime
  BY WaitAssumption
  DEF WaitInv, EndsInTime, LateOnlyInCall, Waiting, TypeOK
<1> QED
  BY <1>1, InitWait, StepWait, PTL DEF Spec

\* No decision goes unnoticed for more than an interval and two calls.
THEOREM WaitNotices == Spec => []DecisionNoticed
<1>1. WaitInv => DecisionNoticed
  BY WaitAssumption
  DEF WaitInv, DecisionNoticed, Unnoticed, Waiting, TypeOK
<1> QED
  BY <1>1, InitWait, StepWait, PTL DEF Spec

(***************************************************************************)
(* Refinement.                                                             *)
(***************************************************************************)
LEMMA InitPromised == Init => Promise!Init
BY WaitAssumption
DEF Init, Promise!Init, Promise!Sorts, Sorted, Waiting

\* What the wait returns is what it may return.
LEMMA LoopPromised ==
  ASSUME WaitInv, Loop PROVE [Promise!Next]_Promise!pvars
<1> USE DEF Promise!Next, Promise!pvars, Promise!Answer, constants, timers,
            history, Waiting
<1>1. CASE Start
  BY <1>1 DEF Start, Promise!Fail, Sorted
<1>2. CASE Poll
  BY <1>2 DEF Poll, Sorted
<1>3. CASE TimeOut
  BY <1>3 DEF TimeOut, Promise!TimeOut, Sorted
<1>4. CASE SeeCancel
  BY <1>4 DEF SeeCancel, Promise!HeedCancel, Sorted
<1>5. CASE Receive
  <2>1. kind \in Kinds /\ answer \in {"refused"} \cup States
    BY <1>5 DEF Receive, WaitInv, TypeOK
  <2>2. pc = "call" /\ pc' = Check(answer)
    BY <1>5 DEF Receive
  <2>3. /\ Sorted' = Sorted
        /\ UNCHANGED <<left, interrupted>>
    BY <1>5 DEF Receive, Sorted
  <2>4. CASE Check(answer) = "select"
    BY <2>2, <2>3, <2>4
  <2>5. CASE Check(answer) = "done"
    <3>1. answer \in States /\ answer \in Awaited[kind]
      BY <2>1, <2>5, CheckDecides DEF Awaited, Kinds, States
    <3>2. "awaited" \in Sorted
      BY <2>2, <3>1 DEF WaitInv, HistoryOK, Sorted
    <3> QED
      BY <2>2, <2>3, <2>5, <3>2 DEF Promise!Succeed
  <2>6. CASE Check(answer) = "unexpected"
    <3>1. answer \in States /\ answer \in Fatal[kind]
      BY <2>1, <2>6, CheckDecides DEF Fatal, Kinds, States
    <3>2. "fatal" \in Sorted
      BY <2>2, <3>1 DEF WaitInv, HistoryOK, Sorted
    <3> QED
      BY <2>2, <2>3, <2>6, <3>2 DEF Promise!GiveUp
  <2> QED
    BY <2>1, <2>4, <2>5, <2>6, CheckDecides
<1>6. CASE Break
  BY <1>6 DEF Break, Promise!Fail, Sorted
<1> QED
  BY <1>1, <1>2, <1>3, <1>4, <1>5, <1>6 DEF Loop

LEMMA OutsidePromised ==
  ASSUME WaitInv, Serve \/ Change \/ Interrupt \/ Pass
  PROVE  [Promise!Next]_Promise!pvars
<1>1. UNCHANGED pc /\ UNCHANGED kind
  BY DEF Serve, Change, Interrupt, Pass, constants
<1>2. seen \subseteq seen'
  BY DEF Serve, Change, Interrupt, Pass, history
<1>3. Sorted \subseteq Sorted' /\ Sorted' \in SUBSET {"awaited", "fatal"}
  BY <1>1, <1>2 DEF Sorted
<1>4. left = 0 => left' = 0
  BY DEF Serve, Change, Interrupt, Pass, timers
<1>5. interrupted => interrupted'
  BY DEF Serve, Change, Interrupt, Pass
<1>6. interrupted' \in {interrupted, TRUE}
  BY DEF Serve, Change, Interrupt, Pass
<1>7. (left' = 0) \in {(left = 0), TRUE}
  BY <1>4
<1> QED
  BY <1>1, <1>3, <1>6, <1>7
  DEF Promise!Next, Promise!Outside, Promise!Sorts, Waiting

\* Whatever a wait answers is true of the object, the clock or the context.
THEOREM WaitKeepsPromise == Spec => PromiseKept
<1>1. WaitInv /\ [Next]_vars => [Promise!Next]_Promise!pvars
  <2> SUFFICES ASSUME WaitInv, [Next]_vars PROVE [Promise!Next]_Promise!pvars
    OBVIOUS
  <2>1. CASE Loop
    BY <2>1, LoopPromised
  <2>2. CASE Serve \/ Change \/ Interrupt \/ Pass
    BY <2>2, OutsidePromised
  <2>3. CASE UNCHANGED vars
    BY <2>3 DEF vars, constants, timers, history, Promise!pvars, Sorted, Waiting
  <2> QED
    BY <2>1, <2>2, <2>3 DEF Next, Finished
<1> QED
  BY <1>1, InitPromised, InitWait, StepWait, PTL DEF Spec, PromiseKept, Promise!Spec

(***************************************************************************)
(* The wait for the password.                                              *)
(***************************************************************************)
\* Once the helper has assigned its results, Run, if it still waits, finds
\* in err and password what belongs together; waitDone tells that it has.
Assigned ==
    /\ waitDone = "full" => helper = "ended"
    /\ passwordPc = "select" /\ helper \in {"signal", "ended"} /\ err = "nil"
         => password = "text"

\* When Run has returned, the helper has ended or was told to.
Released ==
    passwordPc \in {"continue", "halt"} /\ helper # "ended" => cancel = "closed"

PasswordInv ==
    Password!TypeOK /\ Assigned /\ Released /\ Password!GoesOnWithPassword

LEMMA InitPassword == Password!Init => PasswordInv
BY DEF Password!Init, PasswordInv, Password!TypeOK, Assigned, Released,
       Password!GoesOnWithPassword

LEMMA HelperKeepsInv ==
  ASSUME PasswordInv, Password!HelperStep PROVE PasswordInv'
<1> USE DEF PasswordInv, Password!TypeOK, Assigned, Released,
    Password!GoesOnWithPassword, Password!HelperAt, Password!HelperGoesTo,
    Password!runVars, Password!helperVars
<1>1. CASE Password!Prepare \/ Password!SeeCancel \/ Password!Poll
  BY <1>1 DEF Password!Prepare, Password!SeeCancel, Password!Poll
<1>2. CASE Password!ReadPassword
  BY <1>2 DEF Password!ReadPassword
<1>3. CASE Password!FindNoPemBlock
  BY <1>3 DEF Password!FindNoPemBlock
<1>4. CASE Password!Assign
  BY <1>4 DEF Password!Assign
<1>5. CASE Password!Signal
  BY <1>5 DEF Password!Signal
<1> QED
  BY <1>1, <1>2, <1>3, <1>4, <1>5 DEF Password!HelperStep

LEMMA RunKeepsInv ==
  ASSUME PasswordInv, Password!RunStep PROVE PasswordInv'
<1> USE DEF PasswordInv, Password!TypeOK, Assigned, Released,
    Password!GoesOnWithPassword, Password!helperVars
<1>1. CASE Password!ReceiveDone
  BY <1>1 DEF Password!ReceiveDone
<1>2. CASE Password!TimeOut
  BY <1>2 DEF Password!TimeOut
<1>3. CASE Password!ReportTimeout
  BY <1>3 DEF Password!ReportTimeout
<1>4. CASE Password!SeeInterrupt
  BY <1>4 DEF Password!SeeInterrupt
<1> QED
  BY <1>1, <1>2, <1>3, <1>4 DEF Password!RunStep

LEMMA StepPassword == PasswordInv /\ [Password!Next]_(Password!vars) => PasswordInv'
<1> SUFFICES ASSUME PasswordInv, [Password!Next]_(Password!vars) PROVE PasswordInv'
  OBVIOUS
<1>1. CASE Password!HelperStep \/ Password!RunStep
  BY <1>1, HelperKeepsInv, RunKeepsInv
<1>2. CASE Password!Interrupt \/ Password!Watch
  BY <1>2
  DEF Password!Interrupt, Password!Watch, PasswordInv, Password!TypeOK, Assigned,
      Released, Password!GoesOnWithPassword, Password!helperVars
<1>3. CASE UNCHANGED Password!vars
  BY <1>3, ZenonT(40)
  DEF Password!vars, Password!runVars, Password!helperVars, PasswordInv,
      Password!TypeOK, Assigned, Released, Password!GoesOnWithPassword
<1> QED
  BY <1>1, <1>2, <1>3 DEF Password!Next, Password!Finished

\* Types of the variables of Run and of its helper.
THEOREM PasswordTypeCorrect == PasswordSpec => []PasswordTypeOK
<1>1. PasswordInv => PasswordTypeOK
  BY DEF PasswordInv, PasswordTypeOK
<1> QED
  BY <1>1, InitPassword, StepPassword, PTL DEF PasswordSpec, Password!Spec

\* StepGetPassword continues only with the password that the service gave:
\* what the helper assigned is complete when Run receives from waitDone.
THEOREM PasswordCorrect == PasswordSpec => []GoesOnWithPassword
<1>1. PasswordInv => GoesOnWithPassword
  BY DEF PasswordInv, GoesOnWithPassword
<1> QED
  BY <1>1, InitPassword, StepPassword, PTL DEF PasswordSpec, Password!Spec

\* Steps of the helper to its end, once it was told to end.
HelperLeft ==
    CASE helper = "start" -> 5
      [] helper = "wait" -> 4
      [] helper = "read" -> 3
      [] helper \in {"got", "failed"} -> 2
      [] helper = "signal" -> 1
      [] helper = "ended" -> 0

\* With Run gone the channel cancel is closed: the helper takes no other turn
\* of its loop.
LEMMA HelperLeadsOn ==
  ASSUME PasswordInv, Password!HelperStep, passwordPc \in {"continue", "halt"}
  PROVE  HelperLeft' < HelperLeft \/ passwordPc' = "crash"
<1>1. helper # "ended" => cancel = "closed"
  BY DEF PasswordInv, Released
<1> USE DEF HelperLeft, Password!HelperAt, Password!HelperGoesTo
<1>2. CASE Password!Prepare \/ Password!SeeCancel \/ Password!Poll
  BY <1>2 DEF Password!Prepare, Password!SeeCancel, Password!Poll
<1>3. CASE Password!ReadPassword
  BY <1>1, <1>3 DEF Password!ReadPassword
<1>4. CASE Password!FindNoPemBlock
  BY <1>4 DEF Password!FindNoPemBlock
<1>5. CASE Password!Assign
  <2>1. helper \in {"got", "failed"} /\ helper' = "signal"
    BY <1>5 DEF Password!Assign
  <2> QED
    BY <2>1
<1>6. CASE Password!Signal
  BY <1>6 DEF Password!Signal
<1> QED
  BY <1>2, <1>3, <1>4, <1>5, <1>6 DEF Password!HelperStep

\* The helper survives the return of Run by five steps at most, and its
\* channel has room when it signals: HelperEnds fails only of a step that is
\* never taken (step_get_password.go).
THEOREM HelperIsBounded ==
  PasswordSpec =>
    /\ [](helper = "signal" => waitDone = "empty")
    /\ [][Password!HelperStep /\ passwordPc \in {"continue", "halt"}
            => HelperLeft' < HelperLeft \/ passwordPc' = "crash"]_(Password!vars)
<1>1. PasswordInv => (helper = "signal" => waitDone = "empty")
  BY DEF PasswordInv, Password!TypeOK, Assigned
<1>2. PasswordInv /\ [Password!Next]_(Password!vars)
        => [Password!HelperStep /\ passwordPc \in {"continue", "halt"}
              => HelperLeft' < HelperLeft \/ passwordPc' = "crash"]_(Password!vars)
  BY HelperLeadsOn
<1> QED
  BY <1>1, <1>2, InitPassword, StepPassword, PTL DEF PasswordSpec, Password!Spec
=============================================================================
