------------------------------ MODULE MCBuild -------------------------------
(***************************************************************************)
(* Instances of Build for TLC: sets of configurations.                     *)
(***************************************************************************)
EXTENDS Build

CONSTANTS sda, sdb          \* the root device and an extra one

\* All temporary resources are wanted, one extra volume is mapped.
Usual ==
    [force |-> FALSE, deleteSnapshots |-> FALSE, tempKey |-> TRUE,
     debug |-> FALSE, publicIp |-> TRUE, tempGroup |-> TRUE,
     skipImage |-> FALSE, rootMissing |-> FALSE, password |-> FALSE,
     global |-> FALSE, tagged |-> TRUE, disableStop |-> FALSE,
     shutdown |-> "stop", onError |-> "cleanup", launch |-> {sdb},
     deleteFlag |-> [d \in Devices |-> IF d = sdb THEN "unset" ELSE "false"]]

Forced == [Usual EXCEPT !.force = TRUE, !.deleteSnapshots = TRUE]

ForcedPlain == [Usual EXCEPT !.force = TRUE, !.global = TRUE]

Debugged ==
    [Usual EXCEPT !.debug = TRUE, !.publicIp = FALSE,
                  !.deleteFlag = [d \in Devices |-> "true"]]

Windows ==
    [Usual EXCEPT !.tempKey = FALSE, !.password = TRUE, !.tempGroup = FALSE,
                  !.disableStop = TRUE, !.launch = {}]

Terminating ==
    [Usual EXCEPT !.shutdown = "terminate", !.launch = {sda, sdb},
                  !.publicIp = FALSE]

Misconfigured == [Usual EXCEPT !.rootMissing = TRUE, !.shutdown = "other"]

RootMissing == [Usual EXCEPT !.rootMissing = TRUE, !.publicIp = FALSE]

DryRun == [Usual EXCEPT !.skipImage = TRUE, !.tempKey = FALSE]

Abort == [Usual EXCEPT !.onError = "abort"]

AllConfigs == {Usual, Forced, ForcedPlain, Debugged, Windows, Terminating,
               Misconfigured, RootMissing, DryRun, Abort}

UsualConfigs == {Usual}
=============================================================================
