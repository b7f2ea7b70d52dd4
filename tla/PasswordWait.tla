---------------------------- MODULE PasswordWait ----------------------------
(***************************************************************************)
(* StepGetPassword for a WinRM communicator without a password.  Run       *)
(* starts a goroutine, the helper, that polls for the password, and waits  *)
(* for whichever comes first: waitDone, the timeout, or an interrupt in    *)
(* the state bag.  Both write the captured variable err.                   *)
(***************************************************************************)
VARIABLES
    key,            \* s.Comm.SSHPrivateKey: "pem" or "other"
    pc,             \* where Run is, or what it returned, or "crash"
    helper,         \* where the helper is
    err,            \* the captured variables
    password,
    commPassword,   \* s.Comm.WinRMPassword
    bag,            \* the keys "error" and "cancelled", where they are
    interrupted,    \* the context is done
    cancel,         \* the channel cancel: "open" or "closed"
    waitDone        \* the channel waitDone, of capacity one

runVars == <<key, pc, commPassword, bag, interrupted, cancel>>
helperVars == <<helper, err, password, waitDone>>
vars == <<runVars, helperVars>>

\* A key file of the user's is read and not looked into.
Init ==
    /\ key \in {"pem", "other"}
    /\ pc = "select"
    /\ helper = "start"
    /\ err = "nil"
    /\ password = ""
    /\ commPassword = ""
    /\ bag = {}
    /\ interrupted = FALSE
    /\ cancel = "open"
    /\ waitDone = "empty"

(***************************************************************************)
(* The helper.                                                             *)
(***************************************************************************)
\* It dies with the process.
HelperAt(label) == helper = label /\ pc # "crash" /\ UNCHANGED runVars

HelperGoesTo(labels) ==
    helper' \in labels /\ UNCHANGED <<err, password, waitDone>>

\* What it takes from the state bag, or the client, may be at fault.
Prepare == HelperAt("start") /\ HelperGoesTo({"wait", "failed"})

\* At this select: the closed channel, or fifteen seconds that passed first.
SeeCancel == HelperAt("wait") /\ cancel = "closed" /\ HelperGoesTo({"failed"})

Poll == HelperAt("wait") /\ HelperGoesTo({"read"})

\* The answer is an error, as it must be once the context is done, cannot be
\* decrypted, is the password, or is blank.  Back at the select a closed
\* channel is ready at once.
ReadPassword ==
    /\ HelperAt("read")
    /\ \/ HelperGoesTo({"failed"})
       \/ ~interrupted /\ key = "pem" /\ HelperGoesTo({"got"})
       \/ ~interrupted /\ cancel = "open" /\ HelperGoesTo({"wait"})

\* decryptPasswordDataWithPrivateKey dereferences the block that pem.Decode
\* did not find.
FindNoPemBlock ==
    /\ helper = "read"
    /\ key = "other"
    /\ ~interrupted
    /\ pc # "crash"
    /\ pc' = "crash"
    /\ UNCHANGED <<key, commPassword, bag, interrupted, cancel, helper, err,
                   password, waitDone>>

\* The results assigned after waitDone is signalled.
AssignAfterSignal ==
    /\ HelperAt("got") \/ HelperAt("failed")
    /\ IF waitDone = "full" \/ pc # "select"
         THEN /\ helper' = "ended"
              /\ err' = IF helper = "got" THEN "nil" ELSE "failed"
              /\ password' = IF helper = "got" THEN "text" ELSE ""
              /\ UNCHANGED waitDone
         ELSE waitDone' = "full" /\ UNCHANGED <<helper, err, password>>

Assign ==
    /\ HelperAt("got") \/ HelperAt("failed")
    /\ err' = IF helper = "got" THEN "nil" ELSE "failed"
    /\ password' = IF helper = "got" THEN "text" ELSE ""
    /\ helper' = "signal"
    /\ UNCHANGED waitDone

\* The channel has room, whether or not Run still receives.
Signal ==
    /\ HelperAt("signal")
    /\ waitDone = "empty"
    /\ waitDone' = "full"
    /\ helper' = "ended"
    /\ UNCHANGED <<err, password>>

(***************************************************************************)
(* Run.  Of the cases that are ready its select takes any.                 *)
(***************************************************************************)
ReceiveDone ==
    /\ pc = "select"
    /\ waitDone = "full"
    /\ waitDone' = "empty"
    /\ IF err = "nil"
         THEN /\ pc' = "continue"
              /\ commPassword' = password
              /\ UNCHANGED bag
         ELSE /\ pc' = "halt"
              /\ bag' = bag \cup {"error"}
              /\ UNCHANGED commPassword
    /\ UNCHANGED <<key, helper, err, password, interrupted, cancel>>

\* The timer made anew in every turn of the loop never runs out.
TimeOutRestarted == FALSE /\ UNCHANGED vars

TimeOut ==
    /\ pc = "select"
    /\ pc' = "timedOut"
    /\ err' = "timeout"
    /\ UNCHANGED <<key, commPassword, bag, interrupted, cancel>>
    /\ UNCHANGED <<helper, password, waitDone>>

\* The channel cancel left open.
ReportTimeoutOnly ==
    /\ pc = "timedOut"
    /\ bag' = bag \cup {"error"}
    /\ pc' = IF err = "nil" THEN "crash" ELSE "halt"
    /\ UNCHANGED <<key, commPassword, interrupted, cancel, helperVars>>

\* The error put under a key nobody reads.
ReportTimeoutWrongKey ==
    /\ pc = "timedOut"
    /\ bag' = bag \cup {"timeout"}
    /\ pc' = "halt"
    /\ cancel' = "closed"
    /\ UNCHANGED <<key, commPassword, interrupted, helperVars>>

\* The helper may assign err after TimeOut did, and before it is read here;
\* err.Error() of nil, or of an interface half written, panics.
ReportTimeout ==
    /\ pc = "timedOut"
    /\ bag' = bag \cup {"error"}
    /\ IF err = "nil" THEN pc' = "crash" /\ UNCHANGED cancel
                      ELSE pc' = "halt" /\ cancel' = "closed"
    /\ UNCHANGED <<key, commPassword, interrupted, helperVars>>

\* Run looks into the bag once a second.
SeeInterrupt ==
    /\ pc = "select"
    /\ "cancelled" \in bag
    /\ pc' = "halt"
    /\ cancel' = "closed"
    /\ UNCHANGED <<key, commPassword, bag, interrupted, helperVars>>

\* The user.
Interrupt ==
    /\ ~interrupted
    /\ pc # "crash"
    /\ interrupted' = TRUE
    /\ UNCHANGED <<key, pc, commPassword, bag, cancel, helperVars>>

\* The runner's watcher.
Watch ==
    /\ interrupted
    /\ "cancelled" \notin bag
    /\ pc # "crash"
    /\ bag' = bag \cup {"cancelled"}
    /\ UNCHANGED <<key, pc, commPassword, interrupted, cancel, helperVars>>

Finished ==
    /\ pc \in {"continue", "halt"} => helper = "ended"
    /\ pc \notin {"select", "timedOut"}
    /\ UNCHANGED vars

HelperStep ==
    \/ Prepare \/ SeeCancel \/ Poll \/ ReadPassword \/ FindNoPemBlock
    \/ Assign \/ Signal

RunStep == ReceiveDone \/ TimeOut \/ ReportTimeout \/ SeeInterrupt

Next == HelperStep \/ RunStep \/ Interrupt \/ Watch \/ Finished

\* Both goroutines run, the timer too, and every call ends.
Fairness == WF_vars(HelperStep) /\ WF_vars(RunStep)

Spec == Init /\ [][Next]_vars /\ Fairness

(***************************************************************************)
(* Properties.                                                             *)
(***************************************************************************)
TypeOK ==
    /\ key \in {"pem", "other"}
    /\ pc \in {"select", "timedOut", "continue", "halt", "crash"}
    /\ helper \in {"start", "wait", "read", "got", "failed", "signal", "ended"}
    /\ err \in {"nil", "failed", "timeout"}
    /\ password \in {"", "text"} /\ commPassword \in {"", "text"}
    /\ bag \subseteq {"error", "cancelled"}
    /\ interrupted \in BOOLEAN
    /\ cancel \in {"open", "closed"}
    /\ waitDone \in {"empty", "full"}

\* The build goes on only with the password the service gave (Run reads what
\* the helper assigned, and not before it has).
GoesOnWithPassword == pc = "continue" => commPassword = "text"

\* Run returns though the service never gives a password.
RunEnds == <>(pc \notin {"select", "timedOut"})

\* The helper never outlives the step for long: whatever ended Run, it stops
\* polling and is not left blocked on its channel.
HelperEnds == <>(helper = "ended" \/ pc = "crash")

\* With a key that can be read, a timeout makes the step halt with its error,
\* and nothing worse, whatever the helper does meanwhile.
TimeoutReported ==
    [][pc = "timedOut" /\ pc' # pc /\ key = "pem" => pc' = "halt"]_vars
=============================================================================
