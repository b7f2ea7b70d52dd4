------------------------------- MODULE Build --------------------------------
(***************************************************************************)
(* One run of the bsu builder: Builder.Run puts seventeen steps into the   *)
(* SDK's step runner, which runs them in order until one halts or the      *)
(* build is cancelled, and then runs the Cleanup of every step it started, *)
(* last one first.  A call to the service may be accepted, be refused with *)
(* an HTTP status (the generated client returns no error for that), fail   *)
(* with nothing done, or be executed with its answer lost, in particular   *)
(* when the user cancels while it is in flight.                            *)
(***************************************************************************)
EXTENDS Cloud, Naturals, Sequences, FiniteSets

CONSTANT
    Configs         \* the prepared configurations a build may have

ConfigType ==
    [force: BOOLEAN,            \* ForceDeregister
     deleteSnapshots: BOOLEAN,  \* ForceDeleteSnapshot
     tempKey: BOOLEAN,          \* a temporary key pair is wanted
     debug: BOOLEAN,            \* PackerDebug: the key is saved to a file
     publicIp: BOOLEAN,         \* AssociatePublicIPAddress
     tempGroup: BOOLEAN,        \* no group is given by id or by filter
     skipImage: BOOLEAN,        \* SkipCreateImage
     rootMissing: BOOLEAN,      \* image mappings without RootDeviceName
     password: BOOLEAN,         \* winrm without a password
     global: BOOLEAN,           \* GlobalPermission
     tagged: BOOLEAN,           \* Tags or SnapshotTags are set
     disableStop: BOOLEAN,      \* DisableStopVM
     shutdown: {"stop", "terminate", "other"},
     onError: {"cleanup", "abort"},
     launch: SUBSET Devices,    \* devices of launch_block_device_mappings
     deleteFlag: [Devices -> {"true", "false", "unset"}]]

ASSUME ConfigsAssumption == Configs \subseteq ConfigType

VARIABLES
    cfg,            \* the configuration of this build
    pos,            \* the step that runs, or whose Cleanup is next
    pc,             \* where the runner or the step's handler is
    interrupted,    \* the context given to Builder.Run is done
    bag,            \* the keys of the state bag the steps and Run test
    known,          \* resources whose id a step has stored to clean up
    todo,           \* images StepDeregisterImage has yet to delete
    doomed,         \* volumes StepCleanupVolumes has yet to delete
    keyFile,        \* the debug key file exists
    result,         \* what Builder.Run returned
    lost,           \* history: created, or asked for, without the answer
                    \* telling so
    abandoned       \* history: a deletion was tried and not confirmed,
                    \* or skipped by on-error=abort

control == <<pos, pc>>
program == <<cfg, interrupted, todo, doomed, result>>
history == <<lost, abandoned>>
vars == <<cloud, control, program, bag, known, keyFile, history>>

Resources == Temps \cup {"vm", "image", "volumes", "keyfile"}

Names == "names"   \* the query of StepPreValidate

BagKeys == {"error", "cancelled", "halted", "vm", "images"}

\* The order of the steps with the temporary group created after the VM:
\* its Cleanup would then come first.
StepsGroupLate ==
    <<"PreValidate", "SourceImageInfo", "NetworkInfo", "KeyPair", "PublicIp",
      "RunSourceVm", "CleanupVolumes", "SecurityGroup", "GetPassword",
      "Connect", "Provision", "CleanupTempKeys", "StopVm", "DeregisterImage",
      "CreateImage", "UpdateImage", "CreateTags">>

\* The order of the steps with the old images deregistered at the start.
StepsDeregisterFirst ==
    <<"PreValidate", "DeregisterImage", "SourceImageInfo", "NetworkInfo",
      "KeyPair", "PublicIp", "SecurityGroup", "CleanupVolumes",
      "RunSourceVm", "GetPassword", "Connect", "Provision",
      "CleanupTempKeys", "StopVm", "CreateImage", "UpdateImage",
      "CreateTags">>

Steps ==
    <<"PreValidate", "SourceImageInfo", "NetworkInfo", "KeyPair", "PublicIp",
      "SecurityGroup", "CleanupVolumes", "RunSourceVm", "GetPassword",
      "Connect", "Provision", "CleanupTempKeys", "StopVm", "DeregisterImage",
      "CreateImage", "UpdateImage", "CreateTags">>

StepCount == IF cfg.skipImage THEN 14 ELSE 17

PcLabels ==
    {"runner", "run", "boot", "link", "publish", "stopWait", "deregister",
     "imageWait", "imageRead", "unwind", "vmGone", "destroyVolumes",
     "return", "done", "destroyed"}

Init ==
    /\ CloudInit
    /\ cfg \in Configs
    /\ pos = 1
    /\ pc = "runner"
    /\ interrupted = FALSE
    /\ bag = {}
    /\ known = {}
    /\ todo = {}
    /\ doomed = {}
    /\ keyFile = FALSE
    /\ result = "none"
    /\ lost = {}
    /\ abandoned = {}

\* Only the control state and the bag change.
NoEffect == UNCHANGED <<cloud, program, known, keyFile, history>>

(***************************************************************************)
(* The runner.                                                             *)
(***************************************************************************)
StartStep ==
    /\ pc = "runner"
    /\ \/ /\ ~interrupted
          /\ pc' = "run"
          /\ UNCHANGED <<pos, bag>>
       \/ /\ interrupted
          /\ bag' = bag \cup {"cancelled"}
          /\ pc' = "unwind"
          /\ pos' = pos - 1
    /\ NoEffect

\* A step returned ActionContinue, having left the bag as b.
Continue(b) ==
    /\ bag' = b
    /\ IF "cancelled" \in b \/ pos = StepCount
         THEN pc' = "unwind" /\ pos' = pos
         ELSE pc' = "runner" /\ pos' = pos + 1

\* A step returned ActionHalt, having left the bag as b.
Halt(b) ==
    /\ bag' = IF "cancelled" \in b THEN b ELSE b \cup {"halted"}
    /\ pc' = "unwind"
    /\ pos' = pos

\* A step put "error" into the bag and returned ActionHalt.
Fail == Halt(bag \cup {"error"})

\* Run goes on, at another label of the same step.
GoTo(label) == pc' = label /\ UNCHANGED <<pos, bag>>

AtRun(step) == pc = "run" /\ Steps[pos] = step

AtCleanup(step) == pc = "unwind" /\ pos > 0 /\ Steps[pos] = step

NextCleanup ==
    /\ pc' = "unwind"
    /\ pos' = pos - 1
    /\ UNCHANGED bag

\* The build has failed or been interrupted, so far as the bag tells.
Aborted == "cancelled" \in bag \/ "halted" \in bag

KeepCleanups == cfg.onError = "cleanup" \/ ~Aborted

\* What the Cleanup of a step is there to remove.
Owned ==
    [KeyPair |-> {"keypair", "keyfile"}, PublicIp |-> {"publicip"},
     SecurityGroup |-> {"group"}, CleanupVolumes |-> {"volumes"},
     RunSourceVm |-> {"vm"}, CreateImage |-> {"image"}]

WithCleanup == {"KeyPair", "PublicIp", "SecurityGroup", "CleanupVolumes",
                "RunSourceVm", "CreateImage"}

\* on-error=abort: what the step created is left where it is.
SkipCleanup ==
    /\ pc = "unwind"
    /\ pos > 0
    /\ ~KeepCleanups
    /\ NextCleanup
    /\ abandoned' = IF Steps[pos] \in WithCleanup
                      THEN abandoned \cup Owned[Steps[pos]] ELSE abandoned
    /\ UNCHANGED <<cloud, program, known, keyFile, lost>>

EmptyCleanup ==
    /\ pc = "unwind"
    /\ pos > 0
    /\ KeepCleanups
    /\ Steps[pos] \notin WithCleanup
    /\ NextCleanup
    /\ NoEffect

AllUnwound ==
    /\ pc = "unwind"
    /\ pos = 0
    /\ GoTo("return")
    /\ NoEffect

(***************************************************************************)
(* Steps that change none of the state modelled here: they only read, tag  *)
(* or talk to the VM.  Any of their calls may make them fail.              *)
(***************************************************************************)
ContinueOrFail == Continue(bag) \/ Fail

\* The steps that poll for an interrupt halt without an "error".
HaltQuietly ==
    /\ interrupted \/ "cancelled" \in bag
    /\ Halt(bag)

SourceImageInfo ==
    /\ AtRun("SourceImageInfo")
    /\ ContinueOrFail
    /\ NoEffect

NetworkInfo ==
    /\ AtRun("NetworkInfo")
    /\ ContinueOrFail
    /\ NoEffect

GetPassword ==
    /\ AtRun("GetPassword")
    /\ \/ Continue(bag)
       \/ cfg.password /\ (Fail \/ HaltQuietly)
    /\ NoEffect

\* communicator.StepConnect and commonsteps.StepProvision.
ConnectOrProvision ==
    /\ AtRun("Connect") \/ AtRun("Provision")
    /\ ContinueOrFail \/ HaltQuietly
    /\ NoEffect

CleanupTempKeys ==
    /\ AtRun("CleanupTempKeys")
    /\ ContinueOrFail
    /\ NoEffect

UpdateImage ==
    /\ AtRun("UpdateImage")
    /\ \/ "images" \in bag /\ Continue(bag)
       \/ ("images" \notin bag \/ cfg.global) /\ Fail
    /\ NoEffect

CreateTags ==
    /\ AtRun("CreateTags")
    /\ \/ "images" \in bag /\ Continue(bag)
       \/ ("images" \notin bag \/ cfg.tagged) /\ Fail
    /\ NoEffect

\* The query for the name left out.
PreValidateNothing ==
    /\ AtRun("PreValidate")
    /\ Continue(bag)
    /\ NoEffect

\* An image of the name is a conflict.  A query that fails halts the build;
\* one the service refuses reads as "no such image".
PreValidate ==
    /\ AtRun("PreValidate")
    /\ \/ (cfg.force \/ catalogue = {}) /\ Continue(bag) /\ UNCHANGED lost
       \/ ~cfg.force /\ Continue(bag) /\ lost' = lost \cup {Names}
       \/ ~cfg.force /\ Fail /\ UNCHANGED lost
    /\ UNCHANGED <<cloud, program, known, keyFile, abandoned>>

(***************************************************************************)
(* Temporary resources.  The step learns the id of what it created only    *)
(* from the answer.                                                        *)
(***************************************************************************)
NotCreated == Fail /\ UNCHANGED <<temps, known, lost>>

AnswerLost(r) ==
    /\ temps' = temps \cup {r}
    /\ lost' = lost \cup {r}
    /\ Fail
    /\ UNCHANGED known

Created(r) ==
    /\ temps' = temps \cup {r}
    /\ known' = known \cup {r}
    /\ UNCHANGED lost

Unwanted == Continue(bag) /\ UNCHANGED <<temps, known, lost>>

\* With Debug the private key is saved, which may fail half-way.
SaveDebugKey ==
    \/ ~cfg.debug /\ Continue(bag) /\ UNCHANGED keyFile
    \/ cfg.debug /\ Continue(bag) /\ keyFile' = TRUE
    \/ cfg.debug /\ Fail /\ keyFile' \in BOOLEAN

KeyPairRun ==
    /\ AtRun("KeyPair")
    /\ \/ ~cfg.tempKey /\ Unwanted /\ UNCHANGED keyFile
       \/ NotCreated /\ UNCHANGED keyFile
       \/ cfg.tempKey /\ AnswerLost("keypair") /\ UNCHANGED keyFile
       \/ cfg.tempKey /\ Created("keypair") /\ SaveDebugKey
    /\ UNCHANGED <<vm, linked, volumes, catalogue, snapshots, newImage,
                   program, abandoned>>

PublicIpRun ==
    /\ AtRun("PublicIp")
    /\ \/ ~cfg.publicIp /\ Unwanted
       \/ cfg.publicIp /\ NotCreated
       \/ cfg.publicIp /\ AnswerLost("publicip")
       \/ cfg.publicIp /\ Created("publicip") /\ Continue(bag)
    /\ UNCHANGED <<vm, linked, volumes, catalogue, snapshots, newImage,
                   program, keyFile, abandoned>>

\* Once the group exists, a missing port or a failed call for its rule
\* halts; a rule the service refused does not.
SecurityGroupRun ==
    /\ AtRun("SecurityGroup")
    /\ \/ ~cfg.tempGroup /\ Unwanted
       \/ NotCreated
       \/ cfg.tempGroup /\ AnswerLost("group")
       \/ cfg.tempGroup /\ Created("group") /\ (Continue(bag) \/ Fail)
    /\ UNCHANGED <<vm, linked, volumes, catalogue, snapshots, newImage,
                   program, keyFile, abandoned>>

CleanupVolumesRun ==
    /\ AtRun("CleanupVolumes")
    /\ Continue(bag)
    /\ NoEffect

(***************************************************************************)
(* The source VM.                                                          *)
(***************************************************************************)
RunSourceVm ==
    /\ AtRun("RunSourceVm")
    /\ \/ Fail /\ UNCHANGED <<vm, volumes, known, lost>>
       \/ /\ CreateVmEffect
          /\ lost' = lost \cup {"vm"}
          /\ Fail
          /\ UNCHANGED known
       \/ /\ CreateVmEffect
          /\ known' = known \cup {"vm"}
          /\ GoTo("boot")
          /\ UNCHANGED lost
    /\ UNCHANGED <<temps, linked, catalogue, snapshots, newImage,
                   program, keyFile, abandoned>>

\* WaitUntilVMRunning, then the calls that tag the VM and its volume.
WaitVmRunning ==
    /\ pc = "boot"
    /\ \/ vm = "running" /\ GoTo("link")
       \/ Fail
    /\ NoEffect

LinkPublicIp ==
    /\ pc = "link"
    /\ \/ "publicip" \notin known /\ GoTo("publish") /\ UNCHANGED linked
       \/ "publicip" \in known /\ GoTo("publish") /\ linked' = TRUE
       \/ "publicip" \in known /\ Fail /\ linked' \in {linked, TRUE}
    /\ UNCHANGED <<temps, vm, volumes, catalogue, snapshots, newImage,
                   program, known, keyFile, history>>

\* The VM put into the bag under a key that no other step reads.
PublishVmWrongKey ==
    /\ pc = "publish"
    /\ Continue(bag \cup {"instance"}) \/ Fail
    /\ NoEffect

\* Only now are the VM and its block devices put into the bag.
PublishVm ==
    /\ pc = "publish"
    /\ Continue(bag \cup {"vm"}) \/ Fail
    /\ NoEffect

\* The status of the answer is not looked at, so a refused StopVm is only
\* noticed by the wait that follows.
StopVm ==
    /\ AtRun("StopVm")
    /\ \/ cfg.disableStop /\ GoTo("stopWait") /\ UNCHANGED vm
       \/ ~cfg.disableStop /\ GoTo("stopWait") /\ (StopVmEffect \/ UNCHANGED vm)
       \/ Fail /\ UNCHANGED vm
       \/ ~cfg.disableStop /\ Fail /\ StopVmEffect
    /\ UNCHANGED <<temps, linked, volumes, catalogue, snapshots, newImage,
                   program, known, keyFile, history>>

\* The wait taken for over as soon as the VM has begun to stop.
StoppedEarly ==
    \/ cfg.shutdown = "stop" /\ vm \in {"stopping", "stopped"}
    \/ cfg.shutdown = "terminate" /\ vm \in {"stopping", "terminated"}

Stopped ==
    \/ cfg.shutdown = "stop" /\ vm = "stopped"
    \/ cfg.shutdown = "terminate" /\ vm = "terminated"

WaitVmStopped ==
    /\ pc = "stopWait"
    /\ \/ Stopped /\ Continue(bag)
       \/ Fail
    /\ NoEffect

(***************************************************************************)
(* Images.                                                                 *)
(***************************************************************************)
\* A query that fails halts; one the service refuses ends the step quietly.
DeregisterImage ==
    /\ AtRun("DeregisterImage")
    /\ \/ ~cfg.force /\ Continue(bag) /\ UNCHANGED todo
       \/ cfg.force /\ (Fail \/ Continue(bag)) /\ UNCHANGED todo
       \/ cfg.force /\ GoTo("deregister") /\ todo' = catalogue
    /\ UNCHANGED <<cloud, cfg, interrupted, doomed, result, known, keyFile,
                   history>>

\* One turn of the loop over the images found.  A refused call passes for a
\* success; a failed one halts, whether or not the service executed it.
DeregisterOne ==
    /\ pc = "deregister"
    /\ \E img \in todo :
         /\ todo' = todo \ {img}
         /\ catalogue' \in {catalogue, catalogue \ {img}}
         /\ \/ Fail /\ UNCHANGED snapshots
            \/ ~cfg.deleteSnapshots /\ GoTo("deregister") /\ UNCHANGED snapshots
            \/ /\ cfg.deleteSnapshots
               /\ snapshots' \in {snapshots, snapshots \ {img}}
               /\ GoTo("deregister") \/ Fail
    /\ UNCHANGED <<temps, vm, linked, volumes, newImage, cfg, interrupted,
                   doomed, result, known, keyFile, history>>

DeregisterDone ==
    /\ pc = "deregister"
    /\ todo = {}
    /\ Continue(bag)
    /\ NoEffect

CreateImage ==
    /\ AtRun("CreateImage")
    /\ \/ Fail /\ UNCHANGED <<newImage, lost>>
       \/ /\ ~cfg.rootMissing
          /\ newImage' = "pending"
          /\ lost' = lost \cup {"image"}
          /\ Fail
       \/ /\ ~cfg.rootMissing
          /\ newImage' = "pending"
          /\ pc' = "imageWait"
          /\ bag' = bag \cup {"images"}
          /\ UNCHANGED <<pos, lost>>
    /\ UNCHANGED <<temps, vm, linked, volumes, catalogue, snapshots,
                   program, known, keyFile, abandoned>>

\* The wait that takes any state but "error" for success.
ImageReadyUnlessError(state) == state # "error"

ImageReady(state) == state = "available"

WaitImageAvailable ==
    /\ pc = "imageWait"
    /\ \/ ImageReady(newImage) /\ GoTo("imageRead")
       \/ Fail
    /\ NoEffect

\* s.image is set only here, from the answer to ReadImages.
ReadImage ==
    /\ pc = "imageRead"
    /\ \/ Continue(bag) /\ known' = known \cup {"image"}
       \/ Fail /\ UNCHANGED known
    /\ UNCHANGED <<cloud, program, keyFile, history>>

(***************************************************************************)
(* Cleanups.  They use a context of their own, which is never done.  Only  *)
(* a transport error tells the handler that its call did not succeed.      *)
(***************************************************************************)
\* The Cleanup that forgets a build that was halted by a step.
CleanupImageIfCancelled ==
    /\ AtCleanup("CreateImage")
    /\ KeepCleanups
    /\ \/ /\ "image" \notin known \/ "cancelled" \notin bag
          /\ UNCHANGED <<newImage, abandoned>>
       \/ /\ "image" \in known
          /\ "cancelled" \in bag
          /\ newImage' = "deregistered"
          /\ UNCHANGED abandoned
    /\ NextCleanup
    /\ UNCHANGED <<temps, vm, linked, volumes, catalogue, snapshots,
                   program, known, keyFile, lost>>

CleanupImage ==
    /\ AtCleanup("CreateImage")
    /\ KeepCleanups
    /\ \/ /\ "image" \notin known \/ ~Aborted
          /\ UNCHANGED <<newImage, abandoned>>
       \/ /\ "image" \in known /\ Aborted
          /\ newImage' = "deregistered"
          /\ UNCHANGED abandoned
       \/ /\ "image" \in known /\ Aborted
          /\ abandoned' = abandoned \cup {"image"}
          /\ UNCHANGED newImage
    /\ NextCleanup
    /\ UNCHANGED <<temps, vm, linked, volumes, catalogue, snapshots,
                   program, known, keyFile, lost>>

CleanupVm ==
    /\ AtCleanup("RunSourceVm")
    /\ KeepCleanups
    /\ \/ "vm" \notin known /\ NextCleanup /\ UNCHANGED <<vm, abandoned>>
       \/ /\ "vm" \in known
          /\ DeleteVmEffect \/ UNCHANGED vm
          /\ \/ GoTo("vmGone") /\ UNCHANGED abandoned
             \/ NextCleanup /\ abandoned' = abandoned \cup {"vm"}
    /\ UNCHANGED <<temps, linked, volumes, catalogue, snapshots, newImage,
                   program, known, keyFile, lost>>

\* WaitUntilVMDeleted without its timeout.
WaitVmGoneForever ==
    /\ pc = "vmGone"
    /\ vm = "terminated"
    /\ NextCleanup
    /\ NoEffect

\* A wait that times out, or one read of it that fails, is only reported.
WaitVmGone ==
    /\ pc = "vmGone"
    /\ \/ vm = "terminated" /\ UNCHANGED abandoned
       \/ abandoned' = abandoned \cup {"vm"}
    /\ NextCleanup
    /\ UNCHANGED <<cloud, program, known, keyFile, lost>>

\* Every volume that was not attached, whoever mapped it.
ExtraVolumesAll == {d \in Devices : volumes[d] \in {"available", "deleted"}}

\* The VM's volumes but those in use and those the user mapped.  A volume
\* that is gone is in no answer, so nothing takes it off the list.
ExtraVolumes ==
    {d \in Devices : volumes[d] \in {"available", "deleted"}} \ cfg.launch

ListVolumes ==
    /\ AtCleanup("CleanupVolumes")
    /\ KeepCleanups
    /\ \/ "vm" \notin bag /\ NextCleanup /\ UNCHANGED <<doomed, abandoned>>
       \/ /\ "vm" \in bag
          /\ NextCleanup
          /\ abandoned' = abandoned \cup {"volumes"}
          /\ UNCHANGED doomed
       \/ /\ "vm" \in bag
          /\ GoTo("destroyVolumes")
          /\ doomed' = ExtraVolumes
          /\ UNCHANGED abandoned
    /\ UNCHANGED <<cloud, cfg, interrupted, todo, result, known, keyFile, lost>>

\* The deletions of the loop, of which any may fail or be refused.
DestroyVolumes ==
    /\ pc = "destroyVolumes"
    /\ \E kept \in SUBSET doomed :
         /\ volumes' = [d \in Devices |->
                          IF d \in doomed \ kept THEN "deleted" ELSE volumes[d]]
         /\ abandoned' = IF kept = {} THEN abandoned
                                      ELSE abandoned \cup {"volumes"}
    /\ doomed' = {}
    /\ NextCleanup
    /\ UNCHANGED <<temps, vm, linked, catalogue, snapshots, newImage, cfg,
                   interrupted, todo, result, known, keyFile, lost>>

\* Delete a temporary resource: nothing stored, nothing to do; in use, the
\* service refuses and the handler does not notice.  failed is what could not
\* be dealt with, for want of a client, by the call or after it.
DeleteTemp(r, failed) ==
    /\ r \notin known => failed = {}
    /\ temps' = IF r \in known \ failed /\ ~InUse(r) THEN temps \ {r} ELSE temps
    /\ abandoned' = abandoned \cup failed
    /\ NextCleanup
    /\ UNCHANGED <<vm, linked, volumes, catalogue, snapshots, newImage,
                   program, known, lost>>

CleanupSecurityGroup ==
    /\ AtCleanup("SecurityGroup")
    /\ KeepCleanups
    /\ \E failed \in SUBSET {"group"} : DeleteTemp("group", failed)
    /\ UNCHANGED keyFile

CleanupPublicIp ==
    /\ AtCleanup("PublicIp")
    /\ KeepCleanups
    /\ \E failed \in SUBSET {"publicip"} : DeleteTemp("publicip", failed)
    /\ UNCHANGED keyFile

\* Without a client both the key pair and the key file stay; after a call for
\* the pair, failed or not, the file is removed, which may fail as well.
CleanupKeyPair ==
    /\ AtCleanup("KeyPair")
    /\ KeepCleanups
    /\ \E failed \in SUBSET (IF cfg.debug THEN {"keypair", "keyfile"} ELSE {"keypair"}) :
         /\ DeleteTemp("keypair", failed)
         /\ keyFile' = (keyFile /\ ("keypair" \notin known \/ ~cfg.debug \/ "keyfile" \in failed))

(***************************************************************************)
(* The end of Builder.Run, and what Packer may do with the artifact.       *)
(***************************************************************************)
ReturnResult ==
    /\ pc = "return"
    /\ result' = IF "error" \in bag \/ "images" \notin bag
                   THEN "error" ELSE "artifact"
    /\ GoTo("done")
    /\ UNCHANGED <<cloud, cfg, interrupted, todo, doomed, known, keyFile,
                   history>>

\* The keys of the StateData the artifact is built with.
ArtifactState == {"generated_data"}

\* Artifact.Destroy, called when Packer does not keep the artifact.
DestroyArtifact ==
    /\ pc = "done"
    /\ result = "artifact"
    /\ GoTo("destroyed")
    /\ newImage' = IF "accessConfig" \in ArtifactState
                     THEN "deregistered" ELSE newImage
    /\ UNCHANGED <<temps, vm, linked, volumes, catalogue, snapshots,
                   program, known, keyFile, history>>

Finished == pc \in {"done", "destroyed"} /\ UNCHANGED vars

(***************************************************************************)
(* The surroundings: the user, the runner's watcher, the service.          *)
(***************************************************************************)
Interrupt ==
    /\ pc \notin {"return", "done", "destroyed"}
    /\ ~interrupted
    /\ interrupted' = TRUE
    /\ UNCHANGED <<cloud, control, cfg, todo, doomed, result, bag, known,
                   keyFile, history>>

\* The goroutine that waits for the context lives until every Cleanup ran.
Watch ==
    /\ pc \notin {"return", "done", "destroyed"}
    /\ interrupted
    /\ "cancelled" \notin bag
    /\ bag' = bag \cup {"cancelled"}
    /\ UNCHANGED <<cloud, control, program, known, keyFile, history>>

\* setBsuToCreate sends FALSE for a device the user said nothing about.
AutoDelete == {d \in Devices : cfg.deleteFlag[d] = "true"}

Service ==
    /\ \/ /\ \/ VmBoots
             \/ VmBootFails(AutoDelete)
             \/ VmShutsDown
             \/ VmStops
             \/ cfg.shutdown = "terminate" /\ VmStopsForGood(AutoDelete)
             \/ VmTerminates(AutoDelete)
          /\ UNCHANGED newImage
       \/ ImageSettles /\ UNCHANGED <<vm, volumes>>
    /\ UNCHANGED <<temps, linked, catalogue, snapshots, control, program, bag,
                   known, keyFile, history>>

(***************************************************************************)
(* The specification.                                                      *)
(***************************************************************************)
RunAStep ==
    \/ StartStep \/ PreValidate \/ SourceImageInfo \/ NetworkInfo
    \/ KeyPairRun \/ PublicIpRun \/ SecurityGroupRun \/ CleanupVolumesRun
    \/ GetPassword \/ ConnectOrProvision \/ CleanupTempKeys
    \/ RunSourceVm \/ WaitVmRunning \/ LinkPublicIp \/ PublishVm
    \/ StopVm \/ WaitVmStopped
    \/ DeregisterImage \/ DeregisterOne \/ DeregisterDone
    \/ CreateImage \/ WaitImageAvailable \/ ReadImage
    \/ UpdateImage \/ CreateTags

Unwind ==
    \/ SkipCleanup \/ EmptyCleanup \/ AllUnwound
    \/ CleanupImage \/ CleanupVm \/ WaitVmGone
    \/ ListVolumes \/ DestroyVolumes
    \/ CleanupSecurityGroup \/ CleanupPublicIp \/ CleanupKeyPair

BuilderRun == RunAStep \/ Unwind \/ ReturnResult

Next ==
    \/ BuilderRun
    \/ DestroyArtifact
    \/ Interrupt \/ Watch \/ Service
    \/ Finished

\* Every wait has a timeout, and every call is taken to end in an answer or
\* an error, so the builder can always go on: it only needs the processor.
Fairness == WF_vars(BuilderRun)

Spec == Init /\ [][Next]_vars /\ Fairness

(***************************************************************************)
(* Properties.                                                             *)
(***************************************************************************)
TypeOK ==
    /\ CloudTypeOK
    /\ cfg \in Configs
    /\ pos \in 0..17
    /\ pc \in PcLabels
    /\ interrupted \in BOOLEAN
    /\ bag \subseteq BagKeys
    /\ known \subseteq Resources
    /\ todo \subseteq OldImages
    /\ doomed \subseteq Devices
    /\ keyFile \in BOOLEAN
    /\ result \in {"none", "artifact", "error"}
    /\ lost \subseteq Resources \cup {Names}
    /\ abandoned \subseteq Resources

Returned == pc \in {"done", "destroyed"}

\* What this build created and still exists, images and volumes aside.
Existing ==
    {r \in Temps \cup {"vm", "keyfile"} :
        \/ r \in temps
        \/ r = "vm" /\ VmAlive
        \/ r = "keyfile" /\ keyFile}

\* Its creation or deletion went wrong, on the service's side, on the wire or
\* for want of a client, or the VM that uses it went wrong that way.
Excused(r) ==
    \/ r \in lost \cup abandoned
    \/ r \in {"group", "publicip"} /\ "vm" \in lost \cup abandoned

\* Builder.Run never returns while a key pair, key file, public IP, group or
\* VM of the build exists, unless a call about it, the removal of the file or
\* the client its Cleanup asked for failed: however far the build came,
\* whatever halted it and whenever it was interrupted.
NoTrackedLeak == Returned => \A r \in Existing : Excused(r)

\* An artifact of a build nobody cancelled names an image that is available.
ArtifactIsUsable ==
    pc = "done" /\ result = "artifact" /\ "cancelled" \notin bag
        => newImage = "available"

\* The image is made of a VM that no longer runs, even if StopVm was refused
\* or stopping was left to the user.
ImageFromStoppedVm ==
    [][newImage = "none" /\ newImage' # "none"
         => vm \in {"stopped", "terminated"}]_vars

\* An old image goes only in a forced build, after the provisioned VM has
\* stopped and before the new image is made.
OldImagesKept ==
    [][catalogue' # catalogue
         => /\ cfg.force
            /\ "vm" \in bag
            /\ vm \in {"stopped", "terminated"}
            /\ newImage = "none"]_vars

\* Without force, a build launches no VM while its image name is taken,
\* unless the service refused the query for the name.
NameTakenStopsBuild ==
    vm # "none" /\ ~cfg.force /\ Names \notin lost => catalogue = {}

\* After a build that came as far as to put its VM into the bag, and could deal
\* with VM and volumes, the volumes left are those the user mapped and did not
\* mark for deletion with the VM.  Without it Cleanup lists none
\* (step_cleanup_volumes.go:59).
VolumesSettled ==
    Returned /\ "vm" \in bag /\ {"vm", "volumes"} \cap abandoned = {}
        => {d \in Devices : volumes[d] # "deleted"} = cfg.launch \ AutoDelete

\* What the build promises of it all: Held is what it still has to clean up.
Held == {r \in known \cap Existing : ~Excused(r)}

PromisedImage ==
    IF "image" \notin known THEN "none"
    ELSE IF newImage = "available" /\ "image" \notin abandoned
           THEN "published" ELSE "withdrawn"

Promise == INSTANCE BuildPromise
    WITH Resource <- Temps \cup {"vm"},
         held <- Held,
         image <- PromisedImage,
         outcome <- IF result = "none" THEN "working" ELSE result

\* The build implements BuildPromise: it answers once, holding nothing, and
\* its answer agrees with what it published and withdrew.
PromiseKept == Promise!Spec

\* Builder.Run returns, with something or nothing to show for it.
Termination == <>Returned

(***************************************************************************)
(* Statements of the repository's own comments and documents that the code *)
(* does not keep.                                                          *)
(***************************************************************************)
\* step_create_image.go:205: a build that was cancelled or halted leaves no
\* image of which it was told the id, unless the deletion failed.
AbortedBuildLeavesNoImage ==
    Returned /\ Aborted /\ "images" \in bag
             /\ cfg.onError = "cleanup" /\ "image" \notin abandoned
        => newImage \notin {"pending", "available"}

\* artifact.go:69: Destroy deregisters the images.
DestroyDeregisters == pc = "destroyed" => newImage = "deregistered"
=============================================================================
