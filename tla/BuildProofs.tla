---------------------------- MODULE BuildProofs -----------------------------
(***************************************************************************)
(* Proofs about Build, for every set of configurations, of devices and of  *)
(* old images: its types, the resources it leaves, the volumes, the image, *)
(* the images it replaces, and that it implements BuildPromise.            *)
(***************************************************************************)
EXTENDS Build, TLAPS

\* The labels at which the step at pos, or its Cleanup, has begun or is next.
AtAStep == PcLabels \ {"unwind", "return", "done", "destroyed"}

\* The runner stays within the list of steps of this configuration, and past
\* its start only while it unwinds.
PosOK ==
    /\ pos \in 0 .. StepCount
    /\ pc \in AtAStep => pos > 0

TypeInv == TypeOK /\ PosOK

\* What the handler of a step may do to the control state and the bag.
Move ==
    \/ Continue(bag) \/ Continue(bag \cup {"vm"})
    \/ Fail \/ Halt(bag)
    \/ \E l \in AtAStep : GoTo(l)
    \/ NextCleanup

ControlTypeOK ==
    /\ pos \in 0 .. 17
    /\ pc \in PcLabels
    /\ bag \subseteq BagKeys

(***************************************************************************)
(* Types.                                                                  *)
(***************************************************************************)
LEMMA InitTypes == Init => TypeInv
<1> SUFFICES ASSUME Init PROVE TypeInv
  OBVIOUS
<1>1. CloudTypeOK
  BY DEF Init, CloudInit, CloudTypeOK, Temps, VmStates, VolumeStates, ImageStates
<1>2. TypeOK
  <2> USE DEF Init
  <2>1. cfg \in Configs /\ pos \in 0 .. 17 /\ pc \in PcLabels
    BY DEF PcLabels
  <2>2. interrupted \in BOOLEAN /\ keyFile \in BOOLEAN
    OBVIOUS
  <2>3. result \in {"none", "artifact", "error"}
    OBVIOUS
  <2> QED
    BY <1>1, <2>1, <2>2, <2>3 DEF TypeOK
<1>3. PosOK
  BY DEF Init, PosOK, StepCount
<1> QED
  BY <1>2, <1>3 DEF TypeInv

\* A move of a step that has begun, or is to be cleaned up, is well typed.
LEMMA MoveTypes ==
  ASSUME TypeInv, pos > 0, Move, pc # "return", cfg' = cfg
  PROVE  ControlTypeOK' /\ PosOK'
<1> USE DEF TypeInv, TypeOK, PosOK, ControlTypeOK, StepCount, BagKeys,
            PcLabels, AtAStep
<1>1. CASE Continue(bag) \/ Continue(bag \cup {"vm"})
  <2>1. PICK b \in {bag, bag \cup {"vm"}} : Continue(b)
    BY <1>1
  <2>2. b \subseteq BagKeys
    OBVIOUS
  <2>3. CASE "cancelled" \in b \/ pos = StepCount
    BY <2>1, <2>2, <2>3 DEF Continue
  <2>4. CASE ~("cancelled" \in b \/ pos = StepCount)
    <3>1. pos + 1 \in 0 .. StepCount
      BY <2>4
    <3> QED
      BY <2>1, <2>2, <2>4, <3>1 DEF Continue
  <2> QED
    BY <2>3, <2>4
<1>2. CASE Fail \/ Halt(bag)
  BY <1>2 DEF Fail, Halt
<1>3. CASE \E l \in AtAStep : GoTo(l)
  BY <1>3 DEF GoTo
<1>4. CASE NextCleanup
  BY <1>4 DEF NextCleanup
<1> QED
  BY <1>1, <1>2, <1>3, <1>4 DEF Move

\* A handler that only moves leaves everything well typed.
LEMMA NoEffectTypes ==
  ASSUME TypeInv, pos > 0, Move, pc # "return", NoEffect
  PROVE  TypeInv'
<1>1. ControlTypeOK' /\ PosOK'
  BY MoveTypes DEF NoEffect, program
<1>2. CloudTypeOK'
  BY DEF NoEffect, cloud, CloudTypeOK, TypeInv, TypeOK
<1> QED
  BY <1>1, <1>2 DEF TypeInv, TypeOK, ControlTypeOK, NoEffect, program, history

LEMMA StepTypes == TypeInv /\ [Next]_vars => TypeInv'
<1> SUFFICES ASSUME TypeInv, [Next]_vars PROVE TypeInv'
  OBVIOUS
<1> USE DEF AtAStep, PcLabels
<1>a. pc \in AtAStep => pos > 0
  BY DEF TypeInv, PosOK
<1>1. CASE StartStep
  <2> USE <1>1 DEF StartStep, NoEffect
  <2>1. CloudTypeOK'
    BY DEF cloud, CloudTypeOK, TypeInv, TypeOK
  <2>2. ControlTypeOK' /\ PosOK'
    <3> USE DEF program, TypeInv, TypeOK, ControlTypeOK, PosOK, StepCount
    <3>1. CASE ~interrupted
      BY <3>1
    <3>2. CASE interrupted
      <4>1. pos - 1 \in 0 .. 17 /\ pos - 1 \in 0 .. StepCount
        OBVIOUS
      <4> QED
        BY <3>2, <4>1 DEF BagKeys
    <3> QED
      BY <3>1, <3>2
  <2> QED
    BY <2>1, <2>2 DEF program, history, TypeInv, TypeOK, ControlTypeOK
<1>2. CASE PreValidate
  <2>1. Move /\ pos > 0
    BY <1>2, <1>a DEF PreValidate, AtRun, Move
  <2>2. ControlTypeOK' /\ PosOK'
    BY <1>2, <2>1, MoveTypes DEF PreValidate, AtRun, program
  <2>3. CloudTypeOK'
    BY <1>2 DEF PreValidate, cloud, CloudTypeOK, TypeInv, TypeOK
  <2> QED
    BY <1>2, <2>2, <2>3 DEF PreValidate, program, TypeInv, TypeOK, ControlTypeOK
<1>3. CASE SourceImageInfo \/ NetworkInfo \/ GetPassword
           \/ ConnectOrProvision \/ CleanupTempKeys
  BY <1>3, <1>a, NoEffectTypes
     DEF SourceImageInfo, NetworkInfo, GetPassword, ConnectOrProvision,
         CleanupTempKeys, ContinueOrFail, HaltQuietly, AtRun, Move
<1>4. CASE UpdateImage \/ CreateTags \/ CleanupVolumesRun
  BY <1>4, <1>a, NoEffectTypes
     DEF UpdateImage, CreateTags, CleanupVolumesRun, AtRun, Move
<1>5. CASE WaitVmRunning \/ PublishVm \/ WaitVmStopped \/ DeregisterDone
           \/ WaitImageAvailable
  BY <1>5, <1>a, NoEffectTypes
     DEF WaitVmRunning, PublishVm, WaitVmStopped, DeregisterDone,
         WaitImageAvailable, Move
<1>6. CASE EmptyCleanup
  BY <1>6, NoEffectTypes DEF EmptyCleanup, Move
<1>7. CASE AllUnwound
  BY <1>7 DEF AllUnwound, GoTo, NoEffect, cloud, program, history, TypeInv,
              TypeOK, CloudTypeOK, PosOK, StepCount
<1>8. CASE KeyPairRun
  <2>1. Move /\ pos > 0 /\ pc # "return" /\ cfg' = cfg
    BY <1>8, <1>a DEF KeyPairRun, AtRun, Unwanted, NotCreated, AnswerLost,
       SaveDebugKey, program, Move
  <2>2. ControlTypeOK' /\ PosOK'
    BY <2>1, MoveTypes
  <2>3. CloudTypeOK'
    BY <1>8 DEF KeyPairRun, Unwanted, NotCreated, AnswerLost, Created,
       SaveDebugKey, Temps, CloudTypeOK, TypeInv, TypeOK
  <2> QED
    BY <1>8, <2>2, <2>3
    DEF KeyPairRun, Unwanted, NotCreated, AnswerLost, Created, SaveDebugKey,
        program, Resources, Temps, TypeInv, TypeOK, ControlTypeOK
<1>9. CASE PublicIpRun
  <2>1. Move /\ pos > 0 /\ pc # "return" /\ cfg' = cfg
    BY <1>9, <1>a DEF PublicIpRun, AtRun, Unwanted, NotCreated, AnswerLost,
       program, Move
  <2>2. ControlTypeOK' /\ PosOK'
    BY <2>1, MoveTypes
  <2>3. CloudTypeOK'
    BY <1>9 DEF PublicIpRun, Unwanted, NotCreated, AnswerLost, Created, Temps,
       CloudTypeOK, TypeInv, TypeOK
  <2> QED
    BY <1>9, <2>2, <2>3
       DEF PublicIpRun, Unwanted, NotCreated, AnswerLost, Created, program,
           Resources, Temps, TypeInv, TypeOK, ControlTypeOK
<1>10. CASE SecurityGroupRun
  <2>1. Move /\ pos > 0 /\ pc # "return" /\ cfg' = cfg
    BY <1>10, <1>a DEF SecurityGroupRun, AtRun, Unwanted, NotCreated, AnswerLost,
       program, Move
  <2>2. ControlTypeOK' /\ PosOK'
    BY <2>1, MoveTypes
  <2>3. CloudTypeOK'
    BY <1>10 DEF SecurityGroupRun, Unwanted, NotCreated, AnswerLost, Created,
       Temps, CloudTypeOK, TypeInv, TypeOK
  <2> QED
    BY <1>10, <2>2, <2>3
       DEF SecurityGroupRun, Unwanted, NotCreated, AnswerLost, Created, program,
           Resources, Temps, TypeInv, TypeOK, ControlTypeOK
<1>11. CASE RunSourceVm
  <2>1. Move /\ pos > 0 /\ pc # "return" /\ cfg' = cfg
    BY <1>11, <1>a DEF RunSourceVm, AtRun, program, Move
  <2>2. ControlTypeOK' /\ PosOK'
    BY <2>1, MoveTypes
  <2>3. CloudTypeOK'
    BY <1>11 DEF RunSourceVm, CreateVmEffect, VmStates, VolumeStates, CloudTypeOK,
       TypeInv, TypeOK
  <2> QED
    BY <1>11, <2>2, <2>3
       DEF RunSourceVm, program, Resources, TypeInv, TypeOK, ControlTypeOK
<1>12. CASE LinkPublicIp
  <2>1. Move /\ pos > 0 /\ pc # "return" /\ cfg' = cfg
    BY <1>12, <1>a DEF LinkPublicIp, program, Move
  <2>2. ControlTypeOK' /\ PosOK'
    BY <2>1, MoveTypes
  <2>3. CloudTypeOK'
    BY <1>12 DEF LinkPublicIp, program, CloudTypeOK, TypeInv, TypeOK
  <2> QED
    BY <1>12, <2>2, <2>3
       DEF LinkPublicIp, program, history, TypeInv, TypeOK, ControlTypeOK
<1>13. CASE StopVm
  <2>1. Move /\ pos > 0 /\ pc # "return" /\ cfg' = cfg
    BY <1>13, <1>a DEF StopVm, AtRun, program, Move
  <2>2. ControlTypeOK' /\ PosOK'
    BY <2>1, MoveTypes
  <2>3. CloudTypeOK'
    BY <1>13 DEF StopVm, StopVmEffect, VmStates, CloudTypeOK, TypeInv, TypeOK
  <2> QED
    BY <1>13, <2>2, <2>3
       DEF StopVm, program, history, TypeInv, TypeOK, ControlTypeOK
<1>14. CASE DeregisterImage
  <2>1. Move /\ pos > 0 /\ pc # "return" /\ cfg' = cfg
    BY <1>14, <1>a DEF DeregisterImage, AtRun, Move
  <2>2. ControlTypeOK' /\ PosOK'
    BY <2>1, MoveTypes
  <2>3. CloudTypeOK'
    BY <1>14 DEF DeregisterImage, cloud, CloudTypeOK, TypeInv, TypeOK
  <2> QED
    BY <1>14, <2>2, <2>3
       DEF DeregisterImage, history, CloudTypeOK, TypeInv, TypeOK, ControlTypeOK
<1>15. CASE DeregisterOne
  <2>1. Move /\ pos > 0 /\ pc # "return" /\ cfg' = cfg
    BY <1>15, <1>a DEF DeregisterOne, AtRun, Move
  <2>2. ControlTypeOK' /\ PosOK'
    BY <2>1, MoveTypes
  <2>3. CloudTypeOK'
    BY <1>15 DEF DeregisterOne, cloud, CloudTypeOK, TypeInv, TypeOK
  <2> QED
    BY <1>15, <2>2, <2>3
       DEF DeregisterOne, history, TypeInv, TypeOK, ControlTypeOK
<1>16. CASE ReadImage
  <2>1. Move /\ pos > 0 /\ pc # "return" /\ cfg' = cfg
    BY <1>16, <1>a DEF ReadImage, program, Move
  <2>2. ControlTypeOK' /\ PosOK'
    BY <2>1, MoveTypes
  <2>3. CloudTypeOK'
    BY <1>16 DEF ReadImage, cloud, CloudTypeOK, TypeInv, TypeOK
  <2> QED
    BY <1>16, <2>2, <2>3
       DEF ReadImage, program, history, Resources, TypeInv, TypeOK, ControlTypeOK
<1>17. CASE SkipCleanup
  <2>1. Move /\ pos > 0 /\ pc # "return" /\ cfg' = cfg
    BY <1>17 DEF SkipCleanup, program, Move
  <2>2. ControlTypeOK' /\ PosOK'
    BY <2>1, MoveTypes
  <2>3. CloudTypeOK'
    BY <1>17 DEF SkipCleanup, cloud, CloudTypeOK, TypeInv, TypeOK
  <2>4. \A s \in WithCleanup : Owned[s] \subseteq Resources
    BY DEF WithCleanup, Owned, Resources, Temps
  <2>5. abandoned' \subseteq Resources
    BY <1>17, <2>4 DEF SkipCleanup, TypeInv, TypeOK
  <2> QED
    BY <1>17, <2>2, <2>3, <2>5
       DEF SkipCleanup, program, TypeInv, TypeOK, ControlTypeOK
<1>18. CASE CleanupImage
  <2>1. Move /\ pos > 0 /\ pc # "return" /\ cfg' = cfg
    BY <1>18 DEF CleanupImage, AtCleanup, program, Move
  <2>2. ControlTypeOK' /\ PosOK'
    BY <2>1, MoveTypes
  <2>3. CloudTypeOK'
    BY <1>18 DEF CleanupImage, ImageStates, CloudTypeOK, TypeInv, TypeOK
  <2> QED
    BY <1>18, <2>2, <2>3
       DEF CleanupImage, program, Resources, TypeInv, TypeOK, ControlTypeOK
<1>19. CASE CleanupVm
  <2>1. Move /\ pos > 0 /\ pc # "return" /\ cfg' = cfg
    BY <1>19 DEF CleanupVm, AtCleanup, program, Move
  <2>2. ControlTypeOK' /\ PosOK'
    BY <2>1, MoveTypes
  <2>3. CloudTypeOK'
    BY <1>19 DEF CleanupVm, DeleteVmEffect, VmAlive, VmStates, CloudTypeOK,
       TypeInv, TypeOK
  <2> QED
    BY <1>19, <2>2, <2>3
       DEF CleanupVm, program, Resources, TypeInv, TypeOK, ControlTypeOK
<1>20. CASE WaitVmGone
  <2>1. Move /\ pos > 0 /\ pc # "return" /\ cfg' = cfg
    BY <1>20, <1>a DEF WaitVmGone, program, Move
  <2>2. ControlTypeOK' /\ PosOK'
    BY <2>1, MoveTypes
  <2>3. CloudTypeOK'
    BY <1>20 DEF WaitVmGone, cloud, CloudTypeOK, TypeInv, TypeOK
  <2> QED
    BY <1>20, <2>2, <2>3
       DEF WaitVmGone, program, Resources, TypeInv, TypeOK, ControlTypeOK
<1>21. CASE ListVolumes
  <2>1. Move /\ pos > 0 /\ pc # "return" /\ cfg' = cfg
    BY <1>21 DEF ListVolumes, AtCleanup, Move
  <2>2. ControlTypeOK' /\ PosOK'
    BY <2>1, MoveTypes
  <2>3. CloudTypeOK'
    BY <1>21 DEF ListVolumes, cloud, CloudTypeOK, TypeInv, TypeOK
  <2> QED
    BY <1>21, <2>2, <2>3
       DEF ListVolumes, ExtraVolumes, Resources, TypeInv, TypeOK, ControlTypeOK
<1>22. CASE DestroyVolumes
  <2>1. Move /\ pos > 0 /\ pc # "return" /\ cfg' = cfg
    BY <1>22, <1>a DEF DestroyVolumes, program, Move
  <2>2. ControlTypeOK' /\ PosOK'
    BY <2>1, MoveTypes
  <2>3. CloudTypeOK'
    BY <1>22 DEF DestroyVolumes, VolumeStates, CloudTypeOK, TypeInv, TypeOK
  <2> QED
    BY <1>22, <2>2, <2>3
       DEF DestroyVolumes, Resources, TypeInv, TypeOK, ControlTypeOK
<1>23. CASE CleanupSecurityGroup
  <2>1. Move /\ pos > 0 /\ pc # "return" /\ cfg' = cfg
    BY <1>23 DEF CleanupSecurityGroup, AtCleanup, DeleteTemp, program, Move
  <2>2. ControlTypeOK' /\ PosOK'
    BY <2>1, MoveTypes
  <2>3. CloudTypeOK'
    BY <1>23 DEF CleanupSecurityGroup, DeleteTemp, CloudTypeOK, TypeInv, TypeOK
  <2> QED
    BY <1>23, <2>2, <2>3
       DEF CleanupSecurityGroup, DeleteTemp, program, Resources, Temps, TypeInv,
          TypeOK, ControlTypeOK
<1>24. CASE CleanupPublicIp
  <2>1. Move /\ pos > 0 /\ pc # "return" /\ cfg' = cfg
    BY <1>24 DEF CleanupPublicIp, AtCleanup, DeleteTemp, program, Move
  <2>2. ControlTypeOK' /\ PosOK'
    BY <2>1, MoveTypes
  <2>3. CloudTypeOK'
    BY <1>24 DEF CleanupPublicIp, DeleteTemp, CloudTypeOK, TypeInv, TypeOK
  <2> QED
    BY <1>24, <2>2, <2>3
       DEF CleanupPublicIp, DeleteTemp, program, Resources, Temps, TypeInv, TypeOK,
          ControlTypeOK
<1>25. CASE CleanupKeyPair
  <2>1. Move /\ pos > 0 /\ pc # "return" /\ cfg' = cfg
    BY <1>25 DEF CleanupKeyPair, AtCleanup, DeleteTemp, program, Move
  <2>2. ControlTypeOK' /\ PosOK'
    BY <2>1, MoveTypes
  <2>3. CloudTypeOK'
    BY <1>25 DEF CleanupKeyPair, DeleteTemp, CloudTypeOK, TypeInv, TypeOK
  <2> QED
    BY <1>25, <2>2, <2>3
       DEF CleanupKeyPair, DeleteTemp, program, Resources, Temps, TypeInv, TypeOK,
          ControlTypeOK
<1>26. CASE CreateImage
  <2> USE <1>26 DEF CreateImage
  <2>1. ControlTypeOK' /\ PosOK'
    <3>1. CASE Fail
      BY <1>a, <3>1, MoveTypes DEF AtRun, Move, program
    <3>2. CASE ~Fail
      BY <3>2 DEF program, TypeInv, TypeOK, ControlTypeOK, PosOK, StepCount,
         BagKeys, AtRun
    <3> QED
      BY <3>1, <3>2
  <2>2. CloudTypeOK'
    BY DEF CloudTypeOK, TypeInv, TypeOK, ImageStates
  <2> QED
    BY <2>1, <2>2 DEF program, TypeInv, TypeOK, ControlTypeOK, Resources
<1>27. CASE ReturnResult
  BY <1>27 DEF ReturnResult, GoTo, cloud, history, TypeInv, TypeOK,
                CloudTypeOK, PosOK, StepCount
<1>28. CASE DestroyArtifact
  BY <1>28 DEF DestroyArtifact, GoTo, program, history, TypeInv, TypeOK,
                CloudTypeOK, PosOK, StepCount, ImageStates
<1>29. CASE Interrupt
  BY <1>29 DEF Interrupt, cloud, control, history, TypeInv, TypeOK,
                CloudTypeOK, PosOK, StepCount
<1>30. CASE Watch
  BY <1>30 DEF Watch, NoEffect, cloud, control, program, history, TypeInv,
                TypeOK, CloudTypeOK, PosOK, StepCount, BagKeys
<1>31. CASE Service
  <2> USE <1>31 DEF Service
  <2>1. vm' \in VmStates /\ volumes' \in [Devices -> VolumeStates]
    BY DEF VmBoots, VmBootFails, VmShutsDown, VmStops, VmStopsForGood,
           VmTerminates, VmEnds, VmStates, VolumeStates, TypeInv, TypeOK,
           CloudTypeOK
  <2>2. newImage' \in ImageStates
    BY DEF ImageSettles, ImageStates, TypeInv, TypeOK, CloudTypeOK
  <2> QED
    BY <2>1, <2>2 DEF control, program, history, TypeInv, TypeOK, CloudTypeOK,
                      PosOK, StepCount
<1>32. CASE UNCHANGED vars
  BY <1>32 DEF vars, cloud, control, program, history, TypeInv, TypeOK,
                CloudTypeOK, PosOK, StepCount
<1> QED
  BY <1>1, <1>2, <1>3, <1>4, <1>5, <1>6, <1>7, <1>8, <1>9, <1>10, <1>11, <1>12,
     <1>13, <1>14, <1>15, <1>16, <1>17, <1>18, <1>19, <1>20, <1>21, <1>22, <1>23,
     <1>24, <1>25, <1>26, <1>27, <1>28, <1>29, <1>30, <1>31, <1>32
     DEF Next, BuilderRun, RunAStep, Unwind, Finished

\* Every variable keeps its type, and the runner its place in the list.
THEOREM TypeCorrect == Spec => []TypeOK
<1>1. Init => TypeInv
  BY InitTypes
<1>2. TypeInv /\ [Next]_vars => TypeInv'
  BY StepTypes
<1>3. TypeInv => TypeOK
  BY DEF TypeInv
<1> QED
  BY <1>1, <1>2, <1>3, PTL DEF Spec

(***************************************************************************)
(* A build never returns while a temporary resource it knew of exists.     *)
(* The property says nothing before the end, so it is not inductive:       *)
(* LeakInv adds what is true of each resource before the step that creates *)
(* it, between that step and its Cleanup, and after it.                    *)
(***************************************************************************)
Forward == {"runner", "run", "boot", "link", "publish", "stopWait",
            "deregister", "imageWait", "imageRead"}

Unwinding == {"unwind", "vmGone", "destroyVolumes"}

Ended == {"return", "done", "destroyed"}

\* The labels inside StepRunSourceVm and StepCleanupVolumes.
LabelPos ==
    /\ pc \in {"boot", "link", "publish", "vmGone"} => pos = 8
    /\ pc = "destroyVolumes" => pos = 7

\* No resource exists before the step that creates it.
NotYet ==
    /\ pc \in Forward /\ pos <= 4 => "keypair" \notin temps /\ ~keyFile
    /\ pc \in Forward /\ pos <= 5 => "publicip" \notin temps
    /\ pc \in Forward /\ pos <= 6 => "group" \notin temps
    /\ pc \in Forward \ {"boot", "link", "publish"} /\ pos <= 8 => vm = "none"

\* A resource that exists is known to its step, or its answer was lost.
Tracked ==
    /\ temps \subseteq known \cup lost
    /\ VmAlive => "vm" \in known \cup lost
    /\ keyFile => "keypair" \in known /\ cfg.debug

\* The Cleanup of step p has run, if the step was started.
Behind(p) ==
    \/ pc \in Ended
    \/ pc \in Unwinding /\ pos < p

\* What step p may have created is gone, or a call about it failed.
Settled(p) ==
    /\ p = 4 => /\ "keypair" \in temps => Excused("keypair")
                /\ keyFile => Excused("keyfile")
    /\ p = 5 => ("publicip" \in temps => Excused("publicip"))
    /\ p = 6 => ("group" \in temps => Excused("group"))
    /\ p = 8 => (VmAlive => Excused("vm"))

LeakInv ==
    /\ LabelPos
    /\ NotYet
    /\ Tracked
    /\ \A p \in 1 .. 17 : Behind(p) => Settled(p)

LEMMA StepsOwners ==
    /\ Steps[4] = "KeyPair"
    /\ Steps[5] = "PublicIp"
    /\ Steps[6] = "SecurityGroup"
    /\ Steps[7] = "CleanupVolumes"
    /\ Steps[8] = "RunSourceVm"
    /\ \A p \in 1 .. 17 : /\ Steps[p] = "KeyPair" => p = 4
                          /\ Steps[p] = "PublicIp" => p = 5
                          /\ Steps[p] = "SecurityGroup" => p = 6
                          /\ Steps[p] = "CleanupVolumes" => p = 7
                          /\ Steps[p] = "RunSourceVm" => p = 8
  BY DEF Steps

LEMMA LeakInvImplies == TypeInv /\ LeakInv => NoTrackedLeak
<1> SUFFICES ASSUME TypeInv, LeakInv, Returned, NEW r \in Existing PROVE Excused(r)
  BY DEF NoTrackedLeak
<1>1. Settled(4) /\ Settled(5) /\ Settled(6) /\ Settled(8)
  BY DEF LeakInv, Behind, Ended, Returned
<1> QED
  BY <1>1 DEF Settled, Existing, Temps, TypeInv, TypeOK, CloudTypeOK

LEMMA InitLeak == Init => LeakInv
  BY DEF Init, CloudInit, LeakInv, LabelPos, NotYet, Tracked, Behind, VmAlive,
         Ended, Unwinding, Forward

\* Excuses are never withdrawn, so what was settled stays settled.
LEMMA SettledStays ==
  ASSUME NEW p \in 1 .. 17, Settled(p),
         temps' \subseteq temps, keyFile' => keyFile, VmAlive' => VmAlive,
         lost \subseteq lost', abandoned \subseteq abandoned'
  PROVE  Settled(p)'
  BY DEF Settled, Excused

\* A forward step that creates nothing.
LEMMA ForwardLeak ==
  ASSUME TypeInv, LeakInv, pc \in Forward,
         \/ \E b : Continue(b) \/ Halt(b)
         \/ /\ pc \notin {"boot", "link", "publish"}
            /\ \E l \in {"stopWait", "deregister", "imageRead"} : GoTo(l)
         \/ pos = 8 /\ (\E l \in {"link", "publish"} : GoTo(l)),
         UNCHANGED <<temps, keyFile, cfg>>, VmAlive' => VmAlive,
         vm = "none" => vm' = "none",
         known \subseteq known', lost \subseteq lost', abandoned' = abandoned
  PROVE  LeakInv'
<1>1. \A p \in 1 .. 17 : Behind(p)' => pos < p /\ pos' = pos /\ pc' = "unwind"
  BY DEF Continue, Halt, GoTo, Behind, Ended, Unwinding
<1>2. ASSUME NEW p \in 1 .. 17, Behind(p)'
      PROVE  Settled(p)'
  BY <1>1, <1>2 DEF LeakInv, NotYet, LabelPos, Settled, VmAlive, Forward,
                    TypeInv, TypeOK
<1>3. LabelPos'
  BY DEF LabelPos, Continue, Halt, GoTo, LeakInv
<1>4. NotYet'
  <2> USE DEF LeakInv, LabelPos, NotYet, Forward, TypeInv, TypeOK
  <2>1. ASSUME NEW b, Continue(b) PROVE NotYet'
    BY <2>1 DEF Continue
  <2>2. ASSUME NEW b, Halt(b) PROVE NotYet'
    BY <2>2 DEF Halt
  <2>3. ASSUME pc \notin {"boot", "link", "publish"},
               NEW l \in {"stopWait", "deregister", "imageRead"}, GoTo(l)
        PROVE  NotYet'
    BY <2>3 DEF GoTo
  <2>4. ASSUME pos = 8, NEW l \in {"link", "publish"}, GoTo(l) PROVE NotYet'
    BY <2>4 DEF GoTo
  <2> QED
    BY <2>1, <2>2, <2>3, <2>4
<1>5. Tracked'
  BY DEF LeakInv, Tracked
<1> QED
  BY <1>2, <1>3, <1>4, <1>5 DEF LeakInv

\* The Cleanup of the step at pos is over: it has settled what is its own.
LEMMA CleanupLeak ==
  ASSUME TypeInv, LeakInv, pc \in Unwinding, NextCleanup,
         NEW q \in 1 .. 17, q = pos, Settled(q)',
         temps' \subseteq temps, keyFile' => keyFile, VmAlive' => VmAlive,
         UNCHANGED <<cfg, known>>,
         lost \subseteq lost', abandoned \subseteq abandoned'
  PROVE  LeakInv'
<1>1. ASSUME NEW p \in 1 .. 17, Behind(p)'
      PROVE  Settled(p)'
  <2>1. CASE p = q
    BY <2>1
  <2>2. CASE p # q
    <3>1. Behind(p)
      BY <1>1, <2>2 DEF Behind, NextCleanup, Ended, Unwinding
    <3> QED
      BY <3>1, SettledStays DEF LeakInv
  <2> QED
    BY <2>1, <2>2
<1>2. LabelPos' /\ NotYet'
  BY DEF LabelPos, NotYet, NextCleanup, Forward
<1>3. Tracked'
  BY DEF LeakInv, Tracked
<1> QED
  BY <1>1, <1>2, <1>3 DEF LeakInv

\* A step that is not the last one went on, was cancelled or failed.
LEMMA StepOver ==
  ASSUME NEW b, Continue(b) \/ Fail, pos < 14
  PROVE  \/ pc' = "runner" /\ pos' = pos + 1
         \/ pc' = "unwind" /\ pos' = pos
<1>1. CASE Continue(b)
  <2>1. pos # StepCount
    BY DEF StepCount
  <2>2. CASE "cancelled" \in b
    BY <1>1, <2>2 DEF Continue
  <2>3. CASE "cancelled" \notin b
    BY <1>1, <2>1, <2>3 DEF Continue
  <2> QED
    BY <2>2, <2>3
<1>2. CASE Fail
  BY <1>2 DEF Fail, Halt
<1> QED
  BY <1>1, <1>2

LEMMA StepLeak == TypeInv /\ LeakInv /\ [Next]_vars => LeakInv'
<1> SUFFICES ASSUME TypeInv, LeakInv, [Next]_vars PROVE LeakInv'
  OBVIOUS
<1>a. pos \in 0 .. 17 /\ (pc \in AtAStep => pos > 0)
  BY DEF TypeInv, TypeOK, PosOK
<1> DEFINE Quiet == UNCHANGED <<temps, vm, keyFile, cfg, known>>
<1>1. CASE StartStep
  <2>1. Quiet /\ UNCHANGED history
    BY <1>1 DEF StartStep, NoEffect, cloud, program
  <2>2. CASE interrupted
    <3>1. pc' = "unwind" /\ pos' = pos - 1
      BY <1>1, <2>2 DEF StartStep
    <3>2. LabelPos' /\ NotYet' /\ Tracked'
      BY <2>1, <3>1 DEF LabelPos, NotYet, Tracked, Forward, VmAlive, LeakInv,
                        history
    <3>3. ASSUME NEW p \in 1 .. 17, Behind(p)' PROVE Settled(p)'
      BY <1>1, <1>a, <2>1, <3>1, <3>3
         DEF StartStep, Behind, Ended, Settled, LeakInv, NotYet, Forward, VmAlive
    <3> QED
      BY <3>2, <3>3 DEF LeakInv
  <2>3. CASE ~interrupted
    <3>1. pc' = "run" /\ pos' = pos
      BY <1>1, <2>3 DEF StartStep
    <3>2. LabelPos' /\ NotYet' /\ Tracked'
      BY <1>1, <2>1, <3>1 DEF StartStep, LabelPos, NotYet, Tracked, Forward,
                              VmAlive, LeakInv, history
    <3> QED
      BY <3>1, <3>2 DEF LeakInv, Behind, Ended, Unwinding
  <2> QED
    BY <2>2, <2>3
<1>2. CASE PreValidate
  BY <1>2, ForwardLeak
     DEF PreValidate, AtRun, Fail, Forward, cloud, program, VmAlive
<1>3. CASE SourceImageInfo \/ NetworkInfo \/ GetPassword
           \/ ConnectOrProvision \/ CleanupTempKeys
  BY <1>3, ForwardLeak
     DEF SourceImageInfo, NetworkInfo, GetPassword, ConnectOrProvision,
         CleanupTempKeys, ContinueOrFail, HaltQuietly, AtRun, Fail, Forward,
         NoEffect, cloud, program, history, VmAlive
<1>4. CASE UpdateImage \/ CreateTags \/ CleanupVolumesRun
  BY <1>4, ForwardLeak
     DEF UpdateImage, CreateTags, CleanupVolumesRun, AtRun, Fail, Forward,
         NoEffect, cloud, program, history, VmAlive
<1>5. CASE WaitVmRunning \/ PublishVm \/ WaitVmStopped \/ DeregisterDone
           \/ WaitImageAvailable
  BY <1>5, ForwardLeak
     DEF WaitVmRunning, PublishVm, WaitVmStopped, DeregisterDone,
         WaitImageAvailable, Fail, Forward, NoEffect, cloud, program, history,
         VmAlive, LeakInv, LabelPos
<1>6. CASE LinkPublicIp
  BY <1>6, ForwardLeak
     DEF LinkPublicIp, Fail, Forward, program, history, VmAlive, LeakInv, LabelPos
<1>7. CASE StopVm
  BY <1>7, ForwardLeak
     DEF StopVm, AtRun, StopVmEffect, Fail, Forward, program, history, VmAlive
<1>8. CASE DeregisterImage \/ DeregisterOne
  BY <1>8, ForwardLeak
     DEF DeregisterImage, DeregisterOne, AtRun, Fail, Forward, cloud, history,
         VmAlive
<1>9. CASE ReadImage
  BY <1>9, ForwardLeak
     DEF ReadImage, Fail, Forward, cloud, program, history, VmAlive
<1>10. CASE CreateImage
  <2>1. CASE Fail
    BY <1>10, <2>1, ForwardLeak
       DEF CreateImage, AtRun, Fail, Forward, program, VmAlive
  <2>2. CASE ~Fail
    <3>1. pc = "run" /\ pc' = "imageWait" /\ Quiet /\ UNCHANGED <<pos, history>>
      BY <1>10, <2>2 DEF CreateImage, AtRun, program, history
    <3>2. LabelPos' /\ NotYet' /\ Tracked'
      BY <3>1 DEF LabelPos, NotYet, Tracked, Forward, VmAlive, LeakInv, history
    <3> QED
      BY <3>1, <3>2 DEF LeakInv, Behind, Ended, Unwinding
  <2> QED
    BY <2>1, <2>2
<1>11. CASE KeyPairRun
  <2>1. pos = 4 /\ pc = "run"
    BY <1>11, <1>a, StepsOwners DEF KeyPairRun, AtRun, AtAStep, PcLabels
  <2>2. CASE UNCHANGED <<temps, keyFile, known, lost>>
    BY <1>11, <2>2, ForwardLeak
       DEF KeyPairRun, AtRun, Unwanted, NotCreated, AnswerLost, Created,
           SaveDebugKey, Fail, Forward, program, VmAlive
  <2>3. CASE ~UNCHANGED <<temps, keyFile, known, lost>>
    <3>1. temps' = temps \cup {"keypair"} /\ UNCHANGED <<vm, cfg, abandoned>>
      BY <1>11, <2>3 DEF KeyPairRun, Unwanted, NotCreated, AnswerLost, Created,
                         SaveDebugKey, program
    <3>2. \/ pc' = "runner" /\ pos' = 5
          \/ pc' = "unwind" /\ pos' = 4
      <4>1. Continue(bag) \/ Fail
        BY <1>11 DEF KeyPairRun, Unwanted, NotCreated, AnswerLost, SaveDebugKey
      <4> QED
        BY <2>1, <4>1, StepOver
    <3>3. LabelPos' /\ NotYet'
      BY <2>1, <3>1, <3>2 DEF LeakInv, LabelPos, NotYet, Forward
    <3>4. Tracked'
      BY <1>11, <2>3, <3>1
         DEF KeyPairRun, Unwanted, NotCreated, AnswerLost, Created,
             SaveDebugKey, LeakInv, Tracked, VmAlive
    <3>5. ASSUME NEW p \in 1 .. 17, Behind(p)' PROVE Settled(p)'
      BY <2>1, <3>1, <3>2, <3>5
         DEF LeakInv, NotYet, Behind, Ended, Unwinding, Settled, Forward, VmAlive
    <3> QED
      BY <3>3, <3>4, <3>5 DEF LeakInv
  <2> QED
    BY <2>2, <2>3
<1>12. CASE PublicIpRun
  <2>1. pos = 5 /\ pc = "run"
    BY <1>12, <1>a, StepsOwners DEF PublicIpRun, AtRun, AtAStep, PcLabels
  <2>2. CASE UNCHANGED <<temps, known, lost>>
    BY <1>12, <2>2, ForwardLeak
       DEF PublicIpRun, AtRun, Unwanted, NotCreated, AnswerLost, Created, Fail,
           Forward, program, VmAlive
  <2>3. CASE ~UNCHANGED <<temps, known, lost>>
    <3>1. /\ temps' = temps \cup {"publicip"}
          /\ UNCHANGED <<vm, cfg, keyFile, abandoned>>
      BY <1>12, <2>3 DEF PublicIpRun, Unwanted, NotCreated, AnswerLost, Created,
                         program
    <3>2. \/ pc' = "runner" /\ pos' = 6
          \/ pc' = "unwind" /\ pos' = 5
      <4>1. Continue(bag) \/ Fail
        BY <1>12 DEF PublicIpRun, Unwanted, NotCreated, AnswerLost
      <4> QED
        BY <2>1, <4>1, StepOver
    <3>3. LabelPos' /\ NotYet'
      BY <2>1, <3>1, <3>2 DEF LeakInv, LabelPos, NotYet, Forward
    <3>4. Tracked'
      BY <1>12, <2>3, <3>1
         DEF PublicIpRun, Unwanted, NotCreated, AnswerLost, Created, LeakInv,
             Tracked, VmAlive
    <3>5. ASSUME NEW p \in 1 .. 17, Behind(p)' PROVE Settled(p)'
      BY <2>1, <3>1, <3>2, <3>5
         DEF LeakInv, NotYet, Behind, Ended, Unwinding, Settled, Forward, VmAlive
    <3> QED
      BY <3>3, <3>4, <3>5 DEF LeakInv
  <2> QED
    BY <2>2, <2>3
<1>13. CASE SecurityGroupRun
  <2>1. pos = 6 /\ pc = "run"
    BY <1>13, <1>a, StepsOwners DEF SecurityGroupRun, AtRun, AtAStep, PcLabels
  <2>2. CASE UNCHANGED <<temps, known, lost>>
    BY <1>13, <2>2, ForwardLeak
       DEF SecurityGroupRun, AtRun, Unwanted, NotCreated, AnswerLost, Created,
           Fail, Forward, program, VmAlive
  <2>3. CASE ~UNCHANGED <<temps, known, lost>>
    <3>1. /\ temps' = temps \cup {"group"}
          /\ UNCHANGED <<vm, cfg, keyFile, abandoned>>
      BY <1>13, <2>3 DEF SecurityGroupRun, Unwanted, NotCreated, AnswerLost,
                         Created, program
    <3>2. \/ pc' = "runner" /\ pos' = 7
          \/ pc' = "unwind" /\ pos' = 6
      <4>1. Continue(bag) \/ Fail
        BY <1>13 DEF SecurityGroupRun, Unwanted, NotCreated, AnswerLost
      <4> QED
        BY <2>1, <4>1, StepOver
    <3>3. LabelPos' /\ NotYet'
      BY <2>1, <3>1, <3>2 DEF LeakInv, LabelPos, NotYet, Forward
    <3>4. Tracked'
      BY <1>13, <2>3, <3>1
         DEF SecurityGroupRun, Unwanted, NotCreated, AnswerLost, Created,
             LeakInv, Tracked, VmAlive
    <3>5. ASSUME NEW p \in 1 .. 17, Behind(p)' PROVE Settled(p)'
      BY <2>1, <3>1, <3>2, <3>5
         DEF LeakInv, NotYet, Behind, Ended, Unwinding, Settled, Forward, VmAlive
    <3> QED
      BY <3>3, <3>4, <3>5 DEF LeakInv
  <2> QED
    BY <2>2, <2>3
<1>14. CASE RunSourceVm
  <2>1. pos = 8 /\ pc = "run"
    BY <1>14, <1>a, StepsOwners DEF RunSourceVm, AtRun, AtAStep, PcLabels
  <2>2. CASE UNCHANGED <<vm, known, lost>>
    BY <1>14, <2>1, <2>2, ForwardLeak
       DEF LeakInv, NotYet, RunSourceVm, AtRun, CreateVmEffect, Fail, Forward,
          program, VmAlive
  <2>3. CASE ~UNCHANGED <<vm, known, lost>>
    <3>1. /\ vm' = "pending"
          /\ "vm" \in known' \cup lost' /\ known \subseteq known' /\ lost \subseteq lost'
          /\ UNCHANGED <<temps, cfg, keyFile, abandoned>>
      BY <1>14, <2>3 DEF RunSourceVm, CreateVmEffect, program
    <3>2. pos' = 8 /\ pc' \in {"boot", "unwind"}
      BY <1>14, <2>1, <2>3 DEF RunSourceVm, CreateVmEffect, Fail, Halt, GoTo
    <3>3. LabelPos' /\ NotYet' /\ Tracked'
      BY <2>1, <3>1, <3>2 DEF LeakInv, LabelPos, NotYet, Tracked, Forward
    <3>4. ASSUME NEW p \in 1 .. 17, Behind(p)' PROVE Settled(p)'
      BY <3>2, <3>4 DEF Behind, Ended, Unwinding, Settled
    <3> QED
      BY <3>3, <3>4 DEF LeakInv
  <2> QED
    BY <2>2, <2>3
<1>15. CASE SkipCleanup
  <2>1. PICK q \in 1 .. 17 : q = pos
    BY <1>15, <1>a DEF SkipCleanup
  <2>2. pc = "unwind" /\ NextCleanup /\ Quiet /\ lost' = lost
    BY <1>15 DEF SkipCleanup, cloud, program
  <2>3. abandoned \subseteq abandoned'
    BY <1>15 DEF SkipCleanup
  <2>4. /\ q = 4 => "keypair" \in abandoned' /\ "keyfile" \in abandoned'
        /\ q = 5 => "publicip" \in abandoned'
        /\ q = 6 => "group" \in abandoned'
        /\ q = 8 => "vm" \in abandoned'
    BY <1>15, <2>1, StepsOwners DEF SkipCleanup, WithCleanup, Owned
  <2>5. Settled(q)'
    BY <2>4 DEF Settled, Excused
  <2> QED
    BY <2>1, <2>2, <2>3, <2>5, CleanupLeak DEF Unwinding, VmAlive
<1>16. CASE EmptyCleanup \/ CleanupImage
  <2>1. PICK q \in 1 .. 17 : q = pos
    BY <1>16, <1>a DEF EmptyCleanup, CleanupImage, AtCleanup
  <2>2. pc = "unwind" /\ NextCleanup /\ Quiet /\ lost' = lost
    BY <1>16 DEF EmptyCleanup, CleanupImage, AtCleanup, NoEffect, cloud,
                 program, history
  <2>3. abandoned \subseteq abandoned'
    BY <1>16 DEF EmptyCleanup, CleanupImage, NoEffect, history
  <2>4. q \notin {4, 5, 6, 8}
    BY <1>16, <2>1, StepsOwners
       DEF EmptyCleanup, CleanupImage, AtCleanup, WithCleanup
  <2>5. Settled(q)'
    BY <2>4 DEF Settled
  <2> QED
    BY <2>1, <2>2, <2>3, <2>5, CleanupLeak DEF Unwinding, VmAlive
<1>17. CASE AllUnwound
  BY <1>17, <1>a
     DEF AllUnwound, GoTo, NoEffect, cloud, program, history, LeakInv,
         LabelPos, NotYet, Tracked, Behind, Settled, Excused, VmAlive, Ended,
         Unwinding, Forward
<1>18. CASE CleanupVm
  <2>1. PICK q \in 1 .. 17 : q = pos
    BY <1>18, <1>a DEF CleanupVm, AtCleanup
  <2>2. q = 8 /\ pc = "unwind"
    BY <1>18, <2>1, StepsOwners DEF CleanupVm, AtCleanup
  <2>3. /\ UNCHANGED <<temps, keyFile, cfg, known, lost>>
        /\ abandoned \subseteq abandoned'
        /\ VmAlive' => VmAlive
    BY <1>18 DEF CleanupVm, DeleteVmEffect, VmAlive, program
  <2>4. CASE NextCleanup
    <3>1. VmAlive' => "vm" \in lost' \cup abandoned'
      BY <1>18, <2>3, <2>4
         DEF CleanupVm, NextCleanup, GoTo, LeakInv, Tracked
    <3>2. Settled(q)'
      BY <2>2, <3>1 DEF Settled, Excused
    <3> QED
      BY <2>1, <2>2, <2>3, <2>4, <3>2, CleanupLeak DEF Unwinding
  <2>5. CASE GoTo("vmGone") /\ UNCHANGED abandoned
    <3>1. LabelPos' /\ NotYet' /\ Tracked'
      BY <2>1, <2>2, <2>3, <2>5
         DEF GoTo, LabelPos, NotYet, Tracked, Forward, LeakInv
    <3>2. ASSUME NEW p \in 1 .. 17, Behind(p)' PROVE Settled(p)'
      <4>1. Behind(p)
        BY <2>2, <2>5, <3>2 DEF GoTo, Behind, Ended, Unwinding
      <4> QED
        BY <2>3, <2>5, <4>1, SettledStays DEF LeakInv
    <3> QED
      BY <3>1, <3>2 DEF LeakInv
  <2> QED
    BY <1>18, <2>4, <2>5 DEF CleanupVm
<1>19. CASE WaitVmGone
  <2>1. PICK q \in 1 .. 17 : q = pos
    BY <1>19, <1>a DEF WaitVmGone, AtAStep, PcLabels
  <2>2. q = 8 /\ pc = "vmGone"
    BY <1>19, <2>1 DEF WaitVmGone, LeakInv, LabelPos
  <2>3. NextCleanup /\ Quiet /\ lost' = lost /\ abandoned \subseteq abandoned'
    BY <1>19 DEF WaitVmGone, cloud, program
  <2>4. VmAlive' => "vm" \in abandoned'
    BY <1>19, <2>3 DEF WaitVmGone, VmAlive
  <2>5. Settled(q)'
    BY <2>2, <2>4 DEF Settled, Excused
  <2> QED
    BY <2>1, <2>2, <2>3, <2>5, CleanupLeak DEF Unwinding, VmAlive
<1>20. CASE ListVolumes \/ DestroyVolumes
  <2>1. PICK q \in 1 .. 17 : q = pos
    BY <1>20, <1>a DEF ListVolumes, DestroyVolumes, AtCleanup, AtAStep, PcLabels
  <2>2. q = 7 /\ pc \in {"unwind", "destroyVolumes"}
    BY <1>20, <2>1, StepsOwners
       DEF ListVolumes, DestroyVolumes, AtCleanup, LeakInv, LabelPos
  <2>3. Quiet /\ lost' = lost /\ abandoned \subseteq abandoned'
    BY <1>20 DEF ListVolumes, DestroyVolumes, cloud
  <2>4. CASE NextCleanup
    <3>1. Settled(q)'
      BY <2>2 DEF Settled
    <3> QED
      BY <2>1, <2>2, <2>3, <2>4, <3>1, CleanupLeak DEF Unwinding, VmAlive
  <2>5. CASE GoTo("destroyVolumes")
    <3>1. LabelPos' /\ NotYet' /\ Tracked'
      BY <2>1, <2>2, <2>3, <2>5
         DEF GoTo, LabelPos, NotYet, Tracked, Forward, LeakInv, VmAlive
    <3>2. ASSUME NEW p \in 1 .. 17, Behind(p)' PROVE Settled(p)'
      <4>1. Behind(p)
        BY <2>2, <2>5, <3>2 DEF GoTo, Behind, Ended, Unwinding
      <4> QED
        BY <2>3, <4>1, SettledStays DEF LeakInv, VmAlive
    <3> QED
      BY <3>1, <3>2 DEF LeakInv
  <2> QED
    BY <1>20, <2>4, <2>5 DEF ListVolumes, DestroyVolumes
<1>21. CASE CleanupSecurityGroup
  <2>1. PICK q \in 1 .. 17 : q = pos
    BY <1>21, <1>a DEF CleanupSecurityGroup, AtCleanup
  <2>2. q = 6 /\ pc = "unwind"
    BY <1>21, <2>1, StepsOwners DEF CleanupSecurityGroup, AtCleanup
  <2>3. /\ NextCleanup /\ temps' \subseteq temps
        /\ UNCHANGED <<vm, linked, keyFile, cfg, known, lost>>
        /\ abandoned \subseteq abandoned'
    BY <1>21 DEF CleanupSecurityGroup, DeleteTemp, program
  <2>4. VmAlive => Excused("vm")
    <3>1. Behind(8)
      BY <2>1, <2>2 DEF Behind, Unwinding
    <3> QED
      BY <3>1 DEF LeakInv, Settled
  <2>5. Settled(q)'
    <3>1. CASE "group" \in known /\ InUse("group")
      BY <2>2, <2>3, <2>4, <3>1 DEF InUse, Settled, Excused
    <3>2. CASE ~("group" \in known /\ InUse("group"))
      <4>1. "group" \in temps' => "group" \in lost' \cup abandoned'
        BY <1>21, <2>3, <3>2
           DEF CleanupSecurityGroup, DeleteTemp, LeakInv, Tracked
      <4> QED
        BY <2>2, <4>1 DEF Settled, Excused
    <3> QED
      BY <3>1, <3>2
  <2> QED
    BY <2>1, <2>2, <2>3, <2>5, CleanupLeak DEF Unwinding, VmAlive
<1>22. CASE CleanupPublicIp
  <2>1. PICK q \in 1 .. 17 : q = pos
    BY <1>22, <1>a DEF CleanupPublicIp, AtCleanup
  <2>2. q = 5 /\ pc = "unwind"
    BY <1>22, <2>1, StepsOwners DEF CleanupPublicIp, AtCleanup
  <2>3. /\ NextCleanup /\ temps' \subseteq temps
        /\ UNCHANGED <<vm, linked, keyFile, cfg, known, lost>>
        /\ abandoned \subseteq abandoned'
    BY <1>22 DEF CleanupPublicIp, DeleteTemp, program
  <2>4. VmAlive => Excused("vm")
    <3>1. Behind(8)
      BY <2>1, <2>2 DEF Behind, Unwinding
    <3> QED
      BY <3>1 DEF LeakInv, Settled
  <2>5. Settled(q)'
    <3>1. CASE "publicip" \in known /\ InUse("publicip")
      BY <2>2, <2>3, <2>4, <3>1 DEF InUse, Settled, Excused
    <3>2. CASE ~("publicip" \in known /\ InUse("publicip"))
      <4>1. "publicip" \in temps' => "publicip" \in lost' \cup abandoned'
        BY <1>22, <2>3, <3>2
           DEF CleanupPublicIp, DeleteTemp, LeakInv, Tracked
      <4> QED
        BY <2>2, <4>1 DEF Settled, Excused
    <3> QED
      BY <3>1, <3>2
  <2> QED
    BY <2>1, <2>2, <2>3, <2>5, CleanupLeak DEF Unwinding, VmAlive
<1>23. CASE CleanupKeyPair
  <2>1. PICK q \in 1 .. 17 : q = pos
    BY <1>23, <1>a DEF CleanupKeyPair, AtCleanup
  <2>2. q = 4 /\ pc = "unwind"
    BY <1>23, <2>1, StepsOwners DEF CleanupKeyPair, AtCleanup
  <2>3. /\ NextCleanup /\ temps' \subseteq temps
        /\ UNCHANGED <<vm, linked, cfg, known, lost>>
        /\ abandoned \subseteq abandoned'
    BY <1>23 DEF CleanupKeyPair, DeleteTemp, program
  <2>4. (keyFile' => keyFile) /\ (keyFile' => "keyfile" \in abandoned')
    BY <1>23 DEF CleanupKeyPair, DeleteTemp, LeakInv, Tracked, TypeInv, TypeOK
  <2>5. "keypair" \in temps' => "keypair" \in lost' \cup abandoned'
    BY <1>23, <2>3 DEF CleanupKeyPair, DeleteTemp, InUse, LeakInv, Tracked
  <2>6. Settled(q)'
    BY <2>2, <2>4, <2>5 DEF Settled, Excused
  <2> QED
    BY <2>1, <2>2, <2>3, <2>4, <2>6, CleanupLeak DEF Unwinding, VmAlive
<1>24. CASE ReturnResult
  BY <1>24
     DEF ReturnResult, GoTo, cloud, history, LeakInv, LabelPos, NotYet,
         Tracked, Behind, Settled, Excused, VmAlive, Ended, Unwinding, Forward
<1>25. CASE DestroyArtifact
  BY <1>25
     DEF DestroyArtifact, GoTo, program, history, LeakInv, LabelPos, NotYet,
         Tracked, Behind, Settled, Excused, VmAlive, Ended, Unwinding, Forward
<1>26. CASE Interrupt \/ Watch \/ UNCHANGED vars
  BY <1>26
     DEF Interrupt, Watch, vars, cloud, control, program, history, LeakInv,
         LabelPos, NotYet, Tracked, Behind, Settled, Excused, VmAlive
<1>27. CASE Service
  <2>1. UNCHANGED <<temps, keyFile, cfg, known, pc, pos, lost, abandoned>>
    BY <1>27 DEF Service, control, program, history
  <2>2. (VmAlive' => VmAlive) /\ (vm = "none" => vm' = "none")
    BY <1>27 DEF Service, VmBoots, VmBootFails, VmShutsDown, VmStops,
                 VmStopsForGood, VmTerminates, VmEnds, VmAlive
  <2>3. LabelPos' /\ NotYet' /\ Tracked'
    BY <2>1, <2>2 DEF LeakInv, LabelPos, NotYet, Tracked
  <2>4. ASSUME NEW p \in 1 .. 17, Behind(p)' PROVE Settled(p)'
    <3>1. Behind(p)
      BY <2>1, <2>4 DEF Behind
    <3> QED
      BY <2>1, <2>2, <3>1, SettledStays DEF LeakInv
  <2> QED
    BY <2>3, <2>4 DEF LeakInv
<1> QED
  BY <1>1, <1>2, <1>3, <1>4, <1>5, <1>6, <1>7, <1>8, <1>9, <1>10, <1>11,
     <1>12, <1>13, <1>14, <1>15, <1>16, <1>17, <1>18, <1>19, <1>20, <1>21,
     <1>22, <1>23, <1>24, <1>25, <1>26, <1>27
     DEF Next, BuilderRun, RunAStep, Unwind, Finished

\* Builder.Run never returns while a key pair, key file, public IP, group or
\* VM it created exists, unless a call about it failed: for every set of
\* configurations, devices and old images (builder.go:103-259 and the
\* Cleanups of its steps).
THEOREM NoLeak == Spec => []NoTrackedLeak
<1>1. Init => TypeInv /\ LeakInv
  BY InitTypes, InitLeak
<1>2. TypeInv /\ LeakInv /\ [Next]_vars => (TypeInv /\ LeakInv)'
  BY StepTypes, StepLeak
<1>3. TypeInv /\ LeakInv => NoTrackedLeak
  BY LeakInvImplies
<1> QED
  BY <1>1, <1>2, <1>3, PTL DEF Spec

(***************************************************************************)
(* The volumes.  What is left of them is settled by the Cleanup of step 7, *)
(* which relies on that of step 8, run before it, for the VM to be gone.   *)
(***************************************************************************)
VmLabels == {"boot", "link", "publish"}

\* The VM is in the bag only after its step, which knows it.
VmPublished ==
    /\ pc \in VmLabels \/ "vm" \in bag => "vm" \in known
    /\ pc \in Forward /\ pos <= 8 => "vm" \notin bag

\* A VM that ended left its volumes as their flags say.
VolumesReleased ==
    ~Behind(7) /\ vm = "terminated" =>
        volumes = [d \in Devices |->
                     IF d \in AutoDelete THEN "deleted" ELSE "available"]

VmGone ==
    Behind(8) /\ "vm" \in bag /\ "vm" \notin abandoned => vm = "terminated"

DoomedRight ==
    pc = "destroyVolumes" /\ "vm" \in bag /\ "vm" \notin abandoned
      => doomed = Devices \ cfg.launch

VolumesLeft ==
    Behind(7) /\ "vm" \in bag /\ {"vm", "volumes"} \cap abandoned = {}
      => {d \in Devices : volumes[d] # "deleted"} = cfg.launch \ AutoDelete

VolumesInv ==
    VmPublished /\ VolumesReleased /\ VmGone /\ DoomedRight /\ VolumesLeft

LEMMA InitVolumes == Init => VolumesInv
  BY DEF Init, CloudInit, VolumesInv, VmPublished, VolumesReleased, VmGone,
         DoomedRight, VolumesLeft, VmLabels, Behind, Unwinding, Ended, Forward

\* What a step does to the control state and to the VM in the bag.
StepMoves ==
    \/ \E b : /\ "vm" \in b => "vm" \in bag \/ pc = "publish"
              /\ Continue(b) \/ Halt(b)
    \/ /\ pc' \in Forward
       /\ pc' \in VmLabels => "vm" \in known'
       /\ pos' = pos
       /\ "vm" \in bag' => "vm" \in bag

\* A step on the way: no Cleanup of a published VM comes next.
LEMMA VolumesForward ==
  ASSUME TypeInv, LeakInv, VolumesInv, pc \in Forward, StepMoves,
         known \subseteq known', cfg' = cfg,
         \/ UNCHANGED volumes /\ (vm' = "terminated" => vm = "terminated")
         \/ vm' = "pending"
  PROVE  VolumesInv'
<1> USE DEF VolumesInv
<1>1. pos \in Nat
  BY DEF TypeInv, TypeOK
<1> DEFINE Moved ==
      /\ "vm" \in bag' => (pc' = "unwind" /\ pos' >= 8) \/ (pc' \in Forward /\ pos' > 8)
      /\ pc' \in VmLabels \/ "vm" \in bag' => "vm" \in known'
      /\ pos' \in Nat
      /\ pc' \in Forward \cup {"unwind"}
<1>2. Moved
  <2>1. ASSUME NEW b, "vm" \in b => "vm" \in bag \/ pc = "publish", Continue(b) \/ Halt(b)
        PROVE  Moved
    BY <1>1, <2>1
       DEF Continue, Halt, VmPublished, Forward, VmLabels, LeakInv, LabelPos
  <2>2. ASSUME pc' \in Forward, pc' \in VmLabels => "vm" \in known', pos' = pos,
               "vm" \in bag' => "vm" \in bag
        PROVE  Moved
    BY <1>1, <2>2 DEF VmPublished
  <2> QED
    BY <2>1, <2>2 DEF StepMoves
<1>3. VmPublished'
  BY <1>2 DEF VmPublished, Forward
<1>4. "vm" \in bag' => ~Behind(7)' /\ ~Behind(8)' /\ pc' # "destroyVolumes"
  BY <1>2 DEF Behind, Unwinding, Ended, Forward
<1>5. VmGone' /\ DoomedRight' /\ VolumesLeft'
  BY <1>4 DEF VmGone, DoomedRight, VolumesLeft
<1>6. VolumesReleased'
  BY DEF VolumesReleased, AutoDelete, Behind, Forward, Unwinding, Ended
<1> QED
  BY <1>3, <1>5, <1>6

\* A Cleanup, or part of one, of another step than 7 and 8.
LEMMA VolumesOtherCleanup ==
  ASSUME TypeInv, LeakInv, VolumesInv, pc = "unwind", pos \notin {7, 8}, NextCleanup,
         UNCHANGED <<vm, volumes, cfg, known>>, abandoned \subseteq abandoned'
  PROVE  VolumesInv'
<1> USE DEF VolumesInv
<1>1. pos \in Nat
  BY DEF TypeInv, TypeOK
<1>2. /\ Behind(7)' <=> Behind(7)
      /\ Behind(8)' <=> Behind(8)
      /\ pc' = "unwind" /\ UNCHANGED bag
  BY <1>1 DEF Behind, NextCleanup, Unwinding, Ended
<1> QED
  BY <1>2 DEF VmPublished, VolumesReleased, VmGone, DoomedRight, VolumesLeft,
              AutoDelete, VmLabels, Forward

LEMMA StepVolumes ==
  ASSUME TypeInv, LeakInv, VolumesInv, [Next]_vars PROVE VolumesInv'
<1>a. pos \in 0 .. 17 /\ (pc \in AtAStep => pos > 0)
  BY DEF TypeInv, TypeOK, PosOK
<1>1. CASE StartStep
  <2>1. UNCHANGED <<vm, volumes, known, cfg, abandoned, doomed>> /\ pc = "runner"
    BY <1>1 DEF StartStep, NoEffect, cloud, program, history
  <2>2. CASE ~interrupted
    <3>1. StepMoves
      BY <1>1, <2>2 DEF StartStep, StepMoves, Forward, VmLabels
    <3> QED
      BY <2>1, <3>1, VolumesForward DEF Forward
  <2>3. CASE interrupted
    <3>1. pc' = "unwind" /\ pos' = pos - 1 /\ bag' = bag \cup {"cancelled"}
      BY <1>1, <2>3 DEF StartStep
    <3>2. "vm" \in bag => pos > 8
      BY <1>a, <2>1 DEF VolumesInv, VmPublished, Forward
    <3> QED
      BY <1>a, <2>1, <3>1, <3>2
         DEF VolumesInv, VmPublished, VolumesReleased, VmGone, DoomedRight,
             VolumesLeft, AutoDelete, VmLabels, Forward, Behind, Unwinding, Ended
  <2> QED
    BY <2>2, <2>3
<1>2. CASE PreValidate \/ SourceImageInfo \/ NetworkInfo \/ CleanupVolumesRun
           \/ GetPassword \/ ConnectOrProvision \/ CleanupTempKeys
           \/ KeyPairRun \/ PublicIpRun \/ SecurityGroupRun
           \/ UpdateImage \/ CreateTags
  <2>1. /\ UNCHANGED <<vm, volumes, cfg>> /\ known \subseteq known'
        /\ pc \in Forward
    BY <1>2
       DEF PreValidate, SourceImageInfo, NetworkInfo, CleanupVolumesRun,
           GetPassword, ConnectOrProvision, CleanupTempKeys, KeyPairRun,
           PublicIpRun, SecurityGroupRun, UpdateImage, CreateTags, NoEffect,
           Unwanted, NotCreated, AnswerLost, Created, AtRun, Forward, cloud,
           program
  <2>2. Continue(bag) \/ Fail \/ Halt(bag)
    BY <1>2
       DEF PreValidate, SourceImageInfo, NetworkInfo, CleanupVolumesRun,
           GetPassword, ConnectOrProvision, CleanupTempKeys, KeyPairRun,
           PublicIpRun, SecurityGroupRun, UpdateImage, CreateTags,
           ContinueOrFail, HaltQuietly, Unwanted, NotCreated, AnswerLost,
           SaveDebugKey
  <2>3. StepMoves
    BY <2>2 DEF StepMoves, Fail
  <2> QED
    BY <2>1, <2>3, VolumesForward
<1>3. CASE RunSourceVm \/ WaitVmRunning \/ LinkPublicIp \/ PublishVm
  <2>1. /\ UNCHANGED cfg /\ known \subseteq known' /\ pc \in Forward
        /\ (UNCHANGED volumes /\ UNCHANGED vm) \/ vm' = "pending"
    BY <1>3 DEF RunSourceVm, WaitVmRunning, LinkPublicIp, PublishVm, AtRun,
                CreateVmEffect, NoEffect, Forward, cloud, program
  <2>2. CASE Fail
    <3>1. StepMoves
      BY <2>2 DEF StepMoves, Fail
    <3> QED
      BY <2>1, <3>1, VolumesForward
  <2>3. CASE pc = "publish" /\ Continue(bag \cup {"vm"})
    <3>1. StepMoves
      BY <2>3 DEF StepMoves
    <3> QED
      BY <2>1, <3>1, VolumesForward
  <2>4. CASE \E l \in VmLabels : GoTo(l) /\ "vm" \in known'
    <3>1. StepMoves
      BY <2>4 DEF StepMoves, GoTo, VmLabels, Forward
    <3> QED
      BY <2>1, <3>1, VolumesForward
  <2> QED
    BY <1>3, <2>2, <2>3, <2>4
       DEF RunSourceVm, WaitVmRunning, LinkPublicIp, PublishVm, NoEffect,
           VolumesInv, VmPublished, VmLabels
<1>4. CASE StopVm \/ WaitVmStopped \/ DeregisterImage \/ DeregisterOne
           \/ DeregisterDone \/ CreateImage \/ WaitImageAvailable \/ ReadImage
  <2>1. /\ UNCHANGED <<volumes, cfg>> /\ known \subseteq known'
        /\ vm' = "terminated" => vm = "terminated"
        /\ pc \in Forward
    BY <1>4
       DEF StopVm, WaitVmStopped, DeregisterImage, DeregisterOne,
           DeregisterDone, CreateImage, WaitImageAvailable, ReadImage, AtRun,
           StopVmEffect, NoEffect, Forward, cloud, program
  <2>2. \/ Continue(bag) \/ Fail
        \/ \E l \in {"stopWait", "deregister", "imageRead"} : GoTo(l)
        \/ pc' = "imageWait" /\ bag' = bag \cup {"images"} /\ UNCHANGED pos
    BY <1>4
       DEF StopVm, WaitVmStopped, DeregisterImage, DeregisterOne,
           DeregisterDone, CreateImage, WaitImageAvailable, ReadImage
  <2>3. StepMoves
    BY <2>2 DEF StepMoves, Fail, GoTo, VmLabels, Forward
  <2> QED
    BY <2>1, <2>3, VolumesForward
<1>5. CASE SkipCleanup \/ EmptyCleanup
  <2>1. /\ pc = "unwind" /\ pos \in 1 .. 17 /\ NextCleanup
        /\ UNCHANGED <<vm, volumes, cfg, known, doomed>>
        /\ abandoned \subseteq abandoned'
    BY <1>5, <1>a DEF SkipCleanup, EmptyCleanup, NoEffect, cloud, program, history
  <2>2. CASE pos \notin {7, 8}
    BY <2>1, <2>2, VolumesOtherCleanup
  <2>3. CASE pos \in {7, 8}
    <3>1. pos = 7 => "volumes" \in abandoned'
      BY <1>5, <2>1, StepsOwners DEF SkipCleanup, EmptyCleanup, WithCleanup, Owned
    <3>2. pos = 8 => "vm" \in abandoned'
      BY <1>5, <2>1, StepsOwners DEF SkipCleanup, EmptyCleanup, WithCleanup, Owned
    <3>3. pc' = "unwind" /\ pos' = pos - 1 /\ bag' = bag
      BY <2>1 DEF NextCleanup
    <3> QED
      BY <2>1, <2>3, <3>1, <3>2, <3>3
         DEF VolumesInv, VmPublished, VolumesReleased, VmGone, DoomedRight,
             VolumesLeft, AutoDelete, VmLabels, Forward, Behind, Unwinding, Ended
  <2> QED
    BY <2>2, <2>3
<1>6. CASE CleanupImage \/ CleanupSecurityGroup \/ CleanupPublicIp \/ CleanupKeyPair
  <2>1. pc = "unwind" /\ pos \notin {7, 8} /\ NextCleanup
    BY <1>6, StepsOwners
       DEF CleanupImage, CleanupSecurityGroup, CleanupPublicIp, CleanupKeyPair,
           DeleteTemp, AtCleanup
  <2>2. UNCHANGED <<vm, volumes, cfg, known>> /\ abandoned \subseteq abandoned'
    BY <1>6
       DEF CleanupImage, CleanupSecurityGroup, CleanupPublicIp, CleanupKeyPair,
           DeleteTemp, program
  <2> QED
    BY <2>1, <2>2, VolumesOtherCleanup
<1>7. CASE CleanupVm \/ WaitVmGone
  <2>1. /\ pos = 8 /\ pc \in {"unwind", "vmGone"}
        /\ UNCHANGED <<volumes, cfg, known>> /\ abandoned \subseteq abandoned'
        /\ vm' = "terminated" => vm = "terminated"
    BY <1>7, <1>a, StepsOwners
       DEF CleanupVm, WaitVmGone, AtCleanup, DeleteVmEffect, LeakInv, LabelPos,
           cloud, program
  <2>2. CASE NextCleanup /\ ("vm" \notin known \/ "vm" \in abandoned' \/ vm' = "terminated")
    BY <2>1, <2>2
       DEF NextCleanup, VolumesInv, VmPublished, VolumesReleased, VmGone,
           DoomedRight, VolumesLeft, AutoDelete, VmLabels, Forward, Behind,
           Unwinding, Ended
  <2>3. CASE GoTo("vmGone")
    BY <2>1, <2>3
       DEF GoTo, VolumesInv, VmPublished, VolumesReleased, VmGone,
           DoomedRight, VolumesLeft, AutoDelete, VmLabels, Forward, Behind,
           Unwinding, Ended
  <2> QED
    BY <1>7, <2>2, <2>3 DEF CleanupVm, WaitVmGone, cloud
<1>8. CASE ListVolumes
  <2>1. /\ pos = 7 /\ pc = "unwind"
        /\ UNCHANGED <<volumes, cfg, known, vm>> /\ abandoned \subseteq abandoned'
    BY <1>8, <1>a, StepsOwners DEF ListVolumes, AtCleanup, cloud
  <2>2. CASE NextCleanup /\ ("vm" \notin bag \/ "volumes" \in abandoned')
    BY <2>1, <2>2
       DEF NextCleanup, VolumesInv, VmPublished, VolumesReleased, VmGone,
           DoomedRight, VolumesLeft, AutoDelete, VmLabels, Forward, Behind,
           Unwinding, Ended
  <2>3. CASE GoTo("destroyVolumes") /\ doomed' = ExtraVolumes
    <3>1. ASSUME "vm" \in bag, "vm" \notin abandoned
          PROVE  ExtraVolumes = Devices \ cfg.launch
      <4>1. vm = "terminated" /\ ~Behind(7)
        BY <2>1, <3>1 DEF VolumesInv, VmGone, Behind, Unwinding, Ended
      <4>2. \A d \in Devices : volumes[d] \in {"available", "deleted"}
        BY <4>1 DEF VolumesInv, VolumesReleased
      <4> QED
        BY <4>2 DEF ExtraVolumes
    <3> QED
      BY <2>1, <2>3, <3>1
         DEF GoTo, VolumesInv, VmPublished, VolumesReleased, VmGone,
             DoomedRight, VolumesLeft, AutoDelete, VmLabels, Forward, Behind,
             Unwinding, Ended
  <2> QED
    BY <1>8, <2>2, <2>3 DEF ListVolumes
<1>9. CASE DestroyVolumes
  <2>1. /\ pos = 7 /\ pc = "destroyVolumes" /\ NextCleanup
        /\ UNCHANGED <<cfg, known, vm>> /\ abandoned \subseteq abandoned'
    BY <1>9 DEF DestroyVolumes, LeakInv, LabelPos
  <2>2. pc' = "unwind" /\ pos' = 6 /\ bag' = bag
    BY <2>1 DEF NextCleanup
  <2>3. VmPublished' /\ VolumesReleased' /\ VmGone' /\ DoomedRight'
    BY <2>1, <2>2
       DEF VolumesInv, VmPublished, VolumesReleased, VmGone, DoomedRight,
           VmLabels, Forward, Behind, Unwinding, Ended
  <2>4. ASSUME "vm" \in bag, {"vm", "volumes"} \cap abandoned' = {}
        PROVE  {d \in Devices : volumes'[d] # "deleted"} = cfg.launch \ AutoDelete
    <3>1. vm = "terminated" /\ ~Behind(7) /\ doomed = Devices \ cfg.launch
      BY <2>1, <2>4
         DEF VolumesInv, VmGone, DoomedRight, Behind, Unwinding, Ended
    <3>2. \A d \in Devices :
            volumes[d] = IF d \in AutoDelete THEN "deleted" ELSE "available"
      BY <3>1 DEF VolumesInv, VolumesReleased
    <3>3. PICK kept \in SUBSET doomed :
            /\ volumes' = [d \in Devices |->
                             IF d \in doomed \ kept THEN "deleted" ELSE volumes[d]]
            /\ abandoned' = IF kept = {} THEN abandoned
                                         ELSE abandoned \cup {"volumes"}
      BY <1>9 DEF DestroyVolumes
    <3>4. kept = {}
      BY <2>4, <3>3
    <3>5. cfg.launch \subseteq Devices
      BY ConfigsAssumption DEF TypeInv, TypeOK, ConfigType
    <3> QED
      BY <3>1, <3>2, <3>3, <3>4, <3>5
  <2>5. VolumesLeft'
    BY <2>1, <2>2, <2>4 DEF VolumesLeft, AutoDelete
  <2> QED
    BY <2>3, <2>5 DEF VolumesInv
<1>10. CASE AllUnwound \/ ReturnResult \/ DestroyArtifact
  <2>1. /\ UNCHANGED <<vm, volumes, cfg, known, doomed, abandoned, pos, bag>>
        /\ (pc = "unwind" /\ pos = 0) \/ pc \in Ended
        /\ pc' \in Ended
    BY <1>10 DEF AllUnwound, ReturnResult, DestroyArtifact, GoTo, NoEffect,
                 cloud, program, history, Ended
  <2> QED
    BY <2>1
       DEF VolumesInv, VmPublished, VolumesReleased, VmGone, DoomedRight,
           VolumesLeft, AutoDelete, VmLabels, Forward, Behind, Unwinding, Ended
<1>11. CASE Interrupt \/ Watch \/ UNCHANGED vars
  <2>1. /\ UNCHANGED <<vm, volumes, cfg, known, doomed, abandoned, pos, pc>>
        /\ "vm" \in bag' <=> "vm" \in bag
    BY <1>11 DEF Interrupt, Watch, vars, cloud, control, program, history
  <2> QED
    BY <2>1
       DEF VolumesInv, VmPublished, VolumesReleased, VmGone, DoomedRight,
           VolumesLeft, AutoDelete, Behind
<1>12. CASE Service
  <2>1. /\ UNCHANGED <<cfg, known, doomed, abandoned, pos, pc, bag>>
        /\ vm = "terminated" => vm' = "terminated"
        /\ \/ vm' # vm /\ VmEnds(AutoDelete)
           \/ UNCHANGED volumes /\ (vm' = "terminated" => vm = "terminated")
    BY <1>12 DEF Service, VmBoots, VmBootFails, VmShutsDown, VmStops, ImageSettles,
                 VmStopsForGood, VmTerminates, VmEnds, control, program, history
  <2>2. VmPublished' /\ VmGone' /\ DoomedRight'
    BY <2>1 DEF VolumesInv, VmPublished, VmGone, DoomedRight, VmLabels, Behind
  <2>3. VolumesReleased'
    BY <2>1 DEF VolumesInv, VolumesReleased, VmEnds, AutoDelete, Behind
  <2>4. VolumesLeft'
    <3>1. "vm" \in bag /\ "vm" \notin abandoned /\ Behind(7) => vm = "terminated"
      BY <1>a DEF VolumesInv, VmGone, Behind
    <3>2. vm = "terminated" => UNCHANGED volumes
      BY <2>1 DEF VmEnds
    <3> QED
      BY <2>1, <3>1, <3>2 DEF VolumesInv, VolumesLeft, AutoDelete, Behind
  <2> QED
    BY <2>2, <2>3, <2>4 DEF VolumesInv
<1> QED
  BY <1>1, <1>2, <1>3, <1>4, <1>5, <1>6, <1>7, <1>8, <1>9, <1>10, <1>11, <1>12
     DEF Next, BuilderRun, RunAStep, Unwind, Finished

\* After a build whose VM and volumes could be dealt with, the volumes left
\* are those the user mapped and did not mark for deletion with the VM, for
\* any set of devices (step_cleanup_volumes.go:30-116, run after
\* step_run_source_vm.go:312-361).
THEOREM VolumesAccounted == Spec => []VolumesSettled
<1>1. Init => TypeInv /\ LeakInv /\ VolumesInv
  BY InitTypes, InitLeak, InitVolumes
<1>2. TypeInv /\ LeakInv /\ VolumesInv /\ [Next]_vars
        => (TypeInv /\ LeakInv /\ VolumesInv)'
  BY StepTypes, StepLeak, StepVolumes
<1>3. VolumesInv => VolumesSettled
  BY DEF VolumesInv, VolumesLeft, VolumesSettled, Returned, Behind, Ended
<1> QED
  BY <1>1, <1>2, <1>3, PTL DEF Spec

(***************************************************************************)
(* The steps that come to an image.  ImageInv says what is true of the     *)
(* images and of the bag while the steps run, and how the bag tells a      *)
(* Cleanup and Builder.Run, later, how far the steps came.                 *)
(***************************************************************************)
\* The labels of the wait and the read in the step that creates the image.
InImageStep == pc \in {"imageWait", "imageRead"}

StepLabels ==
    /\ pc = "stopWait" => pos = 13
    /\ pc = "deregister" => pos = 14 /\ cfg.force
    /\ InImageStep => pos = 15

\* What a step finds that the steps before it left.
OnTheWay ==
    pc \in Forward =>
        /\ {"error", "halted"} \cap bag = {}
        /\ abandoned = {}
        /\ pos > 8 => "vm" \in bag
        /\ pos > 13 => vm \in {"stopped", "terminated"}
        /\ pos > 15 <=> "image" \in known
        /\ pos > 15 \/ InImageStep <=> "images" \in bag
        /\ "images" \notin bag => newImage = "none"
        /\ pc = "imageRead" => newImage = "available"

NameSeen ==
    (pc \in Forward /\ pos > 1) \/ vm # "none"
        => cfg.force \/ Names \in lost \/ catalogue = {}

\* What the bag tells of the image, and why it was withdrawn.
ImageKnown ==
    /\ "image" \in known => newImage \in {"available", "deregistered"} /\ "images" \in bag
    /\ newImage = "deregistered" => Aborted
    /\ ("images" \in bag /\ "error" \notin bag /\ ~InImageStep) => "image" \in known
    /\ "images" \in bag /\ "halted" \in bag => "error" \in bag
    /\ "error" \in bag => Aborted

Withdrawn ==
    Behind(15) /\ "image" \in known /\ "error" \in bag
        => newImage = "deregistered" \/ "image" \in abandoned

Told ==
    /\ result = "none" <=> pc \notin {"done", "destroyed"}
    /\ result = "artifact" => "images" \in bag /\ "error" \notin bag

ImageInv == StepLabels /\ OnTheWay /\ NameSeen /\ ImageKnown /\ Withdrawn /\ Told

LEMMA InitImage == Init => ImageInv
  BY DEF Init, CloudInit, ImageInv, StepLabels, OnTheWay, NameSeen, ImageKnown,
         Withdrawn, Told, InImageStep, Forward, Behind, Unwinding, Ended, Aborted

\* A step that halts, before the image or having put "error" into the bag.
LEMMA ImageHalt ==
  ASSUME TypeInv, LeakInv, ImageInv, pc \in Forward,
         NEW b, b \in {bag, bag \cup {"error"}}, Halt(b),
         "error" \in b \/ "images" \notin bag,
         UNCHANGED <<cfg, result>>, "image" \in known' <=> "image" \in known,
         newImage' = newImage \/ (newImage' = "pending" /\ "image" \notin known),
         vm' # "none" => (vm # "none" \/ pos > 1),
         catalogue' \subseteq catalogue, lost \subseteq lost'
  PROVE  ImageInv'
<1>1. pc' = "unwind" /\ pos' = pos /\ b \subseteq bag'
      /\ bag' \subseteq b \cup {"halted"}
      /\ ("cancelled" \in bag' \/ "halted" \in bag')
  BY DEF Halt
<1>2. StepLabels' /\ OnTheWay' /\ Told'
  BY <1>1 DEF StepLabels, OnTheWay, Told, InImageStep, Forward, ImageInv
<1>3. NameSeen'
  BY <1>1 DEF NameSeen, ImageInv, Forward
<1>4. ImageKnown'
  BY <1>1 DEF ImageKnown, OnTheWay, Aborted, ImageInv, InImageStep
<1>5. Withdrawn'
  <2>1. Behind(15)' => pos < 15
    BY <1>1 DEF Behind, Ended
  <2>2. Behind(15)' => "image" \notin known
    BY <2>1 DEF ImageInv, OnTheWay, TypeInv, TypeOK
  <2> QED
    BY <2>2 DEF Withdrawn
<1> QED
  BY <1>2, <1>3, <1>4, <1>5 DEF ImageInv

LEMMA ImageFail ==
  ASSUME TypeInv, LeakInv, ImageInv, pc \in Forward, Fail,
         UNCHANGED <<cfg, result>>, "image" \in known' <=> "image" \in known,
         newImage' = newImage \/ (newImage' = "pending" /\ "image" \notin known),
         vm' # "none" => (vm # "none" \/ pos > 1),
         catalogue' \subseteq catalogue, lost \subseteq lost'
  PROVE  ImageInv'
<1>1. PICK b \in {bag, bag \cup {"error"}} : "error" \in b /\ Halt(b)
  BY DEF Fail
<1> QED
  BY <1>1, ImageHalt

\* A step other than the one that creates the image goes on.
LEMMA ImageContinue ==
  ASSUME TypeInv, LeakInv, ImageInv, pc \in Forward, ~InImageStep, pos # 15,
         NEW b, b \in {bag, bag \cup {"vm"}}, Continue(b),
         pos = 8 => "vm" \in b,
         pos = 13 => vm \in {"stopped", "terminated"},
         pos = 1 => cfg.force \/ Names \in lost' \/ catalogue = {},
         UNCHANGED <<cfg, result, newImage, abandoned, vm>>,
         "image" \in known' <=> "image" \in known,
         catalogue' \subseteq catalogue, lost \subseteq lost'
  PROVE  ImageInv'
<1> USE DEF ImageInv
<1>a. pos \in Nat /\ bag' = b
  BY DEF TypeInv, TypeOK, Continue
<1>b. {"error", "halted", "cancelled", "images"} \cap b
        = {"error", "halted", "cancelled", "images"} \cap bag
  OBVIOUS
<1>1. CASE pc' = "unwind" /\ pos' = pos
  <2>1. StepLabels' /\ OnTheWay' /\ Told'
    BY <1>1, <1>a, <1>b DEF StepLabels, OnTheWay, Told, InImageStep, Forward
  <2>2. NameSeen'
    BY <1>1 DEF NameSeen, LeakInv, NotYet, Forward
  <2>3. ImageKnown' /\ Withdrawn'
    BY <1>1, <1>a, <1>b DEF ImageKnown, Withdrawn, OnTheWay, Aborted, InImageStep
  <2> QED
    BY <2>1, <2>2, <2>3
<1>2. CASE pc' = "runner" /\ pos' = pos + 1
  <2>1. StepLabels' /\ Told'
    BY <1>2, <1>a, <1>b DEF StepLabels, Told, InImageStep, Forward
  <2>2. OnTheWay'
    BY <1>2, <1>a, <1>b DEF OnTheWay, InImageStep, Forward
  <2>3. NameSeen'
    BY <1>2, <1>a DEF NameSeen
  <2>4. ImageKnown'
    BY <1>2, <1>a, <1>b DEF ImageKnown, OnTheWay, Aborted, InImageStep
  <2>5. Withdrawn'
    BY <1>2 DEF Withdrawn, Behind, Unwinding, Ended
  <2> QED
    BY <2>1, <2>2, <2>3, <2>4, <2>5
<1> QED
  BY <1>1, <1>2 DEF Continue

\* A Cleanup that leaves the image alone, or part of one.
LEMMA ImageCleanup ==
  ASSUME TypeInv, ImageInv, pc \in Unwinding,
         NextCleanup \/ (\E l \in Unwinding : GoTo(l)),
         pos = 15 /\ NextCleanup /\ "error" \in bag /\ "image" \in known
           => newImage = "deregistered" \/ "image" \in abandoned',
         UNCHANGED <<cfg, result, known, newImage, catalogue, lost>>,
         vm' # "none" => vm # "none",
         abandoned \subseteq abandoned'
  PROVE  ImageInv'
<1> USE DEF ImageInv
<1>1. pc' \in Unwinding /\ bag' = bag /\ (pos' = pos \/ (NextCleanup /\ pos' = pos - 1))
  <2>1. CASE NextCleanup
    BY <2>1 DEF NextCleanup, Unwinding
  <2>2. CASE \E l \in Unwinding : GoTo(l)
    BY <2>2 DEF GoTo
  <2> QED
    BY <2>1, <2>2
<1>2. StepLabels' /\ OnTheWay' /\ Told' /\ NameSeen'
  BY <1>1 DEF StepLabels, OnTheWay, Told, NameSeen, InImageStep, Forward, Unwinding
<1>3. ImageKnown'
  BY <1>1 DEF ImageKnown, Aborted, InImageStep, Unwinding
<1>4. Withdrawn'
  <2>1. pos \in Nat
    BY DEF TypeInv, TypeOK
  <2>2. Behind(15)' => (Behind(15) \/ (pos = 15 /\ NextCleanup))
    BY <1>1, <2>1 DEF Behind, Unwinding, Ended
  <2> QED
    BY <1>1, <2>2 DEF Withdrawn
<1> QED
  BY <1>2, <1>3, <1>4

LEMMA ImageOwners ==
    /\ Steps[13] = "StopVm"
    /\ Steps[15] = "CreateImage"
    /\ \A p \in 1 .. 17 : /\ Steps[p] = "PreValidate" => p = 1
                          /\ Steps[p] = "StopVm" => p = 13
                          /\ Steps[p] = "DeregisterImage" => p = 14
                          /\ Steps[p] = "CreateImage" => p = 15
                          /\ Steps[p] \in {"SourceImageInfo", "NetworkInfo",
                               "GetPassword", "Connect", "Provision",
                               "CleanupTempKeys", "KeyPair", "PublicIp",
                               "SecurityGroup", "CleanupVolumes"}
                             => p \notin {1, 8, 13, 14, 15, 16, 17}
                          /\ Steps[p] \in {"UpdateImage", "CreateTags"}
                             => p \in {16, 17}
  BY DEF Steps

LEMMA StepImage == TypeInv /\ LeakInv /\ ImageInv /\ [Next]_vars => ImageInv'
<1> SUFFICES ASSUME TypeInv, LeakInv, ImageInv, [Next]_vars PROVE ImageInv'
  OBVIOUS
<1>a. pos \in 0 .. 17 /\ (pc \in AtAStep => pos > 0)
  BY DEF TypeInv, TypeOK, PosOK
<1>b. pc = "run" => pos \in 1 .. 17
  BY <1>a DEF AtAStep, PcLabels
<1>c. pc \in {"run", "runner"} => pc \in Forward /\ ~InImageStep
  BY DEF Forward, InImageStep
<1>d. pc \in Forward /\ pos < 15 => "images" \notin bag /\ "image" \notin known
  BY <1>a DEF ImageInv, StepLabels, OnTheWay
<1> DEFINE Kept == UNCHANGED <<cfg, result, known, newImage, catalogue, vm>>
<1>1. CASE StartStep
  <2> USE DEF ImageInv
  <2>1. Kept /\ UNCHANGED history
    BY <1>1 DEF StartStep, NoEffect, cloud, program
  <2>2. CASE ~interrupted
    <3>1. pc = "runner" /\ pc' = "run" /\ UNCHANGED <<pos, bag>>
      BY <1>1, <2>2 DEF StartStep
    <3> QED
      BY <2>1, <3>1
         DEF StepLabels, OnTheWay, NameSeen, ImageKnown, Withdrawn, Told,
             InImageStep, Forward, Behind, Unwinding, Ended, Aborted, history
  <2>3. CASE interrupted
    <3>1. /\ pc = "runner" /\ pc' = "unwind" /\ pos' = pos - 1
          /\ bag' = bag \cup {"cancelled"}
      BY <1>1, <2>3 DEF StartStep
    <3>2. StepLabels' /\ OnTheWay' /\ Told'
      BY <2>1, <3>1 DEF StepLabels, OnTheWay, Told, InImageStep, Forward
    <3>3. NameSeen'
      BY <2>1, <3>1 DEF NameSeen, Forward, history
    <3>4. ImageKnown' /\ Withdrawn'
      BY <2>1, <3>1 DEF ImageKnown, Withdrawn, OnTheWay, Forward, Aborted,
         InImageStep
    <3> QED
      BY <3>2, <3>3, <3>4
  <2> QED
    BY <2>2, <2>3
<1>2. CASE PreValidate
  <2>1. pos = 1 /\ pc = "run" /\ Kept /\ UNCHANGED abandoned /\ lost \subseteq lost'
    BY <1>2, <1>b, ImageOwners DEF PreValidate, AtRun, cloud, program
  <2>2. CASE Fail
    BY <1>c, <1>d, <2>1, <2>2, ImageFail
  <2>3. CASE Continue(bag) /\ (cfg.force \/ catalogue = {} \/ Names \in lost')
    BY <1>c, <2>1, <2>3, ImageContinue
  <2> QED
    BY <1>2, <2>2, <2>3 DEF PreValidate
<1>3. CASE SourceImageInfo \/ NetworkInfo \/ GetPassword
           \/ ConnectOrProvision \/ CleanupTempKeys \/ CleanupVolumesRun
  <2>1. pc = "run" /\ pos \notin {1, 8, 13, 14, 15, 16, 17} /\ Kept /\ UNCHANGED history
    BY <1>3, <1>b, ImageOwners
       DEF SourceImageInfo, NetworkInfo, GetPassword, ConnectOrProvision,
           CleanupTempKeys, CleanupVolumesRun, AtRun, NoEffect, cloud, program
  <2>2. pos < 15
    BY <1>b, <2>1
  <2>3. CASE Fail \/ Halt(bag)
    BY <1>c, <1>d, <2>1, <2>2, <2>3, ImageFail, ImageHalt DEF history
  <2>4. CASE Continue(bag)
    BY <1>c, <2>1, <2>4, ImageContinue DEF history
  <2> QED
    BY <1>3, <2>3, <2>4
       DEF SourceImageInfo, NetworkInfo, GetPassword, ConnectOrProvision,
           CleanupTempKeys, CleanupVolumesRun, ContinueOrFail, HaltQuietly
<1>4. CASE UpdateImage \/ CreateTags
  <2>1. pc = "run" /\ pos \in {16, 17} /\ Kept /\ UNCHANGED history
    BY <1>4, <1>b, ImageOwners
       DEF UpdateImage, CreateTags, AtRun, NoEffect, cloud, program
  <2>2. CASE Fail
    BY <1>c, <2>1, <2>2, ImageFail DEF history
  <2>3. CASE Continue(bag)
    BY <1>c, <2>1, <2>3, ImageContinue DEF history
  <2> QED
    BY <1>4, <2>2, <2>3 DEF UpdateImage, CreateTags
<1>5. CASE KeyPairRun \/ PublicIpRun \/ SecurityGroupRun
  <2>1. /\ pc = "run" /\ pos \notin {1, 8, 13, 14, 15, 16, 17}
        /\ UNCHANGED <<cfg, result, newImage, catalogue, vm, abandoned>>
        /\ "image" \in known' <=> "image" \in known
        /\ lost \subseteq lost'
        /\ Continue(bag) \/ Fail
    BY <1>5, <1>b, ImageOwners
       DEF KeyPairRun, PublicIpRun, SecurityGroupRun, AtRun, Unwanted, NotCreated,
           AnswerLost, Created, SaveDebugKey, program
  <2>2. CASE Fail
    BY <1>c, <2>1, <2>2, ImageFail
  <2>3. CASE Continue(bag)
    BY <1>c, <2>1, <2>3, ImageContinue
  <2> QED
    BY <2>1, <2>2, <2>3
<1>6. CASE RunSourceVm
  <2>1. /\ pos = 8 /\ pc = "run"
        /\ UNCHANGED <<cfg, result, newImage, catalogue, abandoned>>
        /\ "image" \in known' <=> "image" \in known
        /\ lost \subseteq lost'
    BY <1>6, <1>b, StepsOwners DEF RunSourceVm, AtRun, program
  <2>2. CASE Fail
    BY <1>c, <2>1, <2>2, ImageFail
  <2>3. CASE GoTo("boot")
    BY <2>1, <2>3
       DEF GoTo, ImageInv, StepLabels, OnTheWay, NameSeen, ImageKnown, Withdrawn,
           Told, InImageStep, Forward, Behind, Unwinding, Ended, Aborted
  <2> QED
    BY <1>6, <2>2, <2>3 DEF RunSourceVm
<1>7. CASE WaitVmRunning \/ LinkPublicIp \/ PublishVm
  <2>1. pos = 8 /\ pc \in {"boot", "link", "publish"} /\ Kept /\ UNCHANGED history
    BY <1>7 DEF WaitVmRunning, LinkPublicIp, PublishVm, NoEffect, cloud, program,
                LeakInv, LabelPos
  <2>2. pc \in Forward /\ ~InImageStep
    BY <2>1 DEF Forward, InImageStep
  <2>3. CASE Fail
    BY <2>1, <2>2, <2>3, ImageFail DEF history
  <2>4. CASE Continue(bag \cup {"vm"})
    BY <2>1, <2>2, <2>4, ImageContinue DEF history
  <2>5. CASE GoTo("link") \/ GoTo("publish")
    BY <2>1, <2>5
       DEF GoTo, ImageInv, StepLabels, OnTheWay, NameSeen, ImageKnown, Withdrawn,
           Told, InImageStep, Forward, Behind, Unwinding, Ended, Aborted, history
  <2> QED
    BY <1>7, <2>3, <2>4, <2>5 DEF WaitVmRunning, LinkPublicIp, PublishVm
<1>8. CASE StopVm
  <2>1. /\ pos = 13 /\ pc = "run"
        /\ UNCHANGED <<cfg, result, known, newImage, catalogue, lost, abandoned>>
    BY <1>8, <1>b, ImageOwners DEF StopVm, AtRun, program, history
  <2>2. CASE Fail
    BY <1>c, <2>1, <2>2, ImageFail
  <2>3. CASE GoTo("stopWait")
    BY <2>1, <2>3
       DEF GoTo, ImageInv, StepLabels, OnTheWay, NameSeen, ImageKnown, Withdrawn,
           Told, InImageStep, Forward, Behind, Unwinding, Ended, Aborted
  <2> QED
    BY <1>8, <2>2, <2>3 DEF StopVm
<1>9. CASE WaitVmStopped
  <2>1. pos = 13 /\ pc = "stopWait" /\ Kept /\ UNCHANGED history
    BY <1>9 DEF WaitVmStopped, NoEffect, cloud, program, ImageInv, StepLabels
  <2>2. pc \in Forward /\ ~InImageStep
    BY <2>1 DEF Forward, InImageStep
  <2>3. CASE Fail
    BY <2>1, <2>2, <2>3, ImageFail DEF history
  <2>4. CASE Continue(bag) /\ vm \in {"stopped", "terminated"}
    BY <2>1, <2>2, <2>4, ImageContinue DEF history
  <2> QED
    BY <1>9, <2>3, <2>4 DEF WaitVmStopped, Stopped
<1>10. CASE DeregisterImage \/ DeregisterOne \/ DeregisterDone
  <2>1. /\ pos = 14 /\ pc \in {"run", "deregister"}
        /\ UNCHANGED <<cfg, result, known, newImage, vm, lost, abandoned>>
        /\ catalogue' \subseteq catalogue
    BY <1>10, <1>b, ImageOwners
       DEF DeregisterImage, DeregisterOne, DeregisterDone, AtRun, NoEffect, cloud,
           program, history, ImageInv, StepLabels
  <2>2. pc \in Forward /\ ~InImageStep
    BY <2>1 DEF Forward, InImageStep
  <2>3. CASE Fail
    BY <2>1, <2>2, <2>3, ImageFail
  <2>4. CASE Continue(bag)
    BY <2>1, <2>2, <2>4, ImageContinue
  <2>5. CASE GoTo("deregister") /\ cfg.force
    BY <2>1, <2>5
       DEF GoTo, ImageInv, StepLabels, OnTheWay, NameSeen, ImageKnown, Withdrawn,
           Told, InImageStep, Forward, Behind, Unwinding, Ended, Aborted
  <2>6. GoTo("deregister") => cfg.force
    BY <1>10 DEF DeregisterImage, DeregisterOne, DeregisterDone, Continue, GoTo,
                 ImageInv, StepLabels
  <2> QED
    BY <1>10, <2>3, <2>4, <2>5, <2>6 DEF DeregisterImage, DeregisterOne,
       DeregisterDone
<1>11. CASE CreateImage
  <2>1. /\ pos = 15 /\ pc = "run"
        /\ UNCHANGED <<cfg, result, known, vm, catalogue, abandoned>>
        /\ lost \subseteq lost'
    BY <1>11, <1>b, ImageOwners DEF CreateImage, AtRun, program
  <2>2. "image" \notin known /\ "images" \notin bag /\ {"error", "halted"} \cap bag = {}
    BY <2>1 DEF ImageInv, OnTheWay, Forward, InImageStep
  <2>3. CASE Fail
    BY <1>11, <1>c, <2>1, <2>2, <2>3, ImageFail DEF CreateImage
  <2>4. CASE /\ pc' = "imageWait" /\ bag' = bag \cup {"images"}
             /\ newImage' = "pending" /\ UNCHANGED <<pos, lost>>
    BY <2>1, <2>2, <2>4
       DEF ImageInv, StepLabels, OnTheWay, NameSeen, ImageKnown, Withdrawn,
           Told, InImageStep, Forward, Behind, Unwinding, Ended, Aborted
  <2> QED
    BY <1>11, <2>3, <2>4 DEF CreateImage
<1>12. CASE WaitImageAvailable
  <2>1. pos = 15 /\ pc = "imageWait" /\ Kept /\ UNCHANGED history
    BY <1>12 DEF WaitImageAvailable, NoEffect, cloud, program, ImageInv,
                 StepLabels, InImageStep
  <2>2. CASE Fail
    BY <2>1, <2>2, ImageFail DEF history, Forward
  <2>3. CASE newImage = "available" /\ GoTo("imageRead")
    BY <2>1, <2>3
       DEF GoTo, ImageInv, StepLabels, OnTheWay, NameSeen, ImageKnown, Withdrawn,
           Told, InImageStep, Forward, Behind, Unwinding, Ended, Aborted, history
  <2> QED
    BY <1>12, <2>2, <2>3 DEF WaitImageAvailable, ImageReady
<1>13. CASE ReadImage
  <2>1. /\ pos = 15 /\ pc = "imageRead" /\ UNCHANGED history
        /\ UNCHANGED <<cfg, result, newImage, catalogue, vm>>
    BY <1>13 DEF ReadImage, cloud, program, ImageInv, StepLabels, InImageStep
  <2>2. CASE Fail /\ UNCHANGED known
    BY <2>1, <2>2, ImageFail DEF history, Forward
  <2>3. CASE Continue(bag) /\ known' = known \cup {"image"}
    <3>1. /\ newImage = "available" /\ "images" \in bag /\ "vm" \in bag
          /\ {"error", "halted"} \cap bag = {} /\ abandoned = {}
          /\ vm \in {"stopped", "terminated"}
      BY <2>1 DEF ImageInv, OnTheWay, Forward, InImageStep
    <3>2. bag' = bag /\ ((pc' = "unwind" /\ pos' = 15) \/ (pc' = "runner" /\ pos' = 16))
      <4>1. Continue(bag)
        BY <2>3
      <4>2. CASE "cancelled" \in bag \/ pos = StepCount
        BY <2>1, <4>1, <4>2 DEF Continue
      <4>3. CASE ~("cancelled" \in bag \/ pos = StepCount)
        BY <2>1, <4>1, <4>3 DEF Continue
      <4> QED
        BY <4>2, <4>3
    <3> QED
      BY <2>1, <2>3, <3>1, <3>2
         DEF ImageInv, StepLabels, OnTheWay, NameSeen, ImageKnown, Withdrawn,
             Told, InImageStep, Forward, Behind, Unwinding, Ended, Aborted, history
  <2> QED
    BY <1>13, <2>2, <2>3 DEF ReadImage

<1>14. CASE SkipCleanup \/ EmptyCleanup
  <2>1. /\ pc = "unwind" /\ pos > 0 /\ NextCleanup /\ Kept
        /\ UNCHANGED lost /\ abandoned \subseteq abandoned'
    BY <1>14 DEF SkipCleanup, EmptyCleanup, NoEffect, cloud, program, history
  <2>2. pos = 15 => Steps[pos] \in WithCleanup /\ "image" \in Owned[Steps[pos]]
    BY ImageOwners DEF WithCleanup, Owned
  <2>3. pos = 15 => "image" \in abandoned'
    BY <1>14, <2>2 DEF SkipCleanup, EmptyCleanup
  <2> QED
    BY <2>1, <2>3, ImageCleanup DEF Unwinding
<1>15. CASE AllUnwound
  <2>1. /\ pc = "unwind" /\ pos = 0 /\ pc' = "return"
        /\ Kept /\ UNCHANGED <<pos, bag, lost, abandoned>>
    BY <1>15 DEF AllUnwound, GoTo, NoEffect, cloud, program, history
  <2> QED
    BY <2>1
       DEF ImageInv, StepLabels, OnTheWay, NameSeen, ImageKnown, Withdrawn,
           Told, InImageStep, Forward, Behind, Unwinding, Ended, Aborted
<1>16. CASE CleanupImage
  <2>1. pos = 15 /\ pc = "unwind"
    BY <1>16, <1>a, ImageOwners DEF CleanupImage, AtCleanup
  <2>2. /\ NextCleanup /\ pc' = "unwind" /\ pos' = 14 /\ bag' = bag
        /\ UNCHANGED <<cfg, result, known, catalogue, vm, lost>>
        /\ abandoned \subseteq abandoned'
    BY <1>16, <2>1 DEF CleanupImage, NextCleanup, program
  <2>3. CASE newImage' = newImage
    <3>1. "error" \in bag /\ "image" \in known
            => newImage = "deregistered" \/ "image" \in abandoned'
      BY <1>16, <2>3 DEF CleanupImage, ImageInv, ImageKnown
    <3> QED
      BY <2>1, <2>2, <2>3, <3>1, ImageCleanup DEF Unwinding
  <2>4. CASE newImage' = "deregistered" /\ "image" \in known /\ Aborted
    BY <2>1, <2>2, <2>4
       DEF ImageInv, StepLabels, OnTheWay, NameSeen, ImageKnown, Withdrawn,
           Told, InImageStep, Forward, Behind, Unwinding, Ended, Aborted
  <2> QED
    BY <1>16, <2>3, <2>4 DEF CleanupImage
<1>17. CASE CleanupVm \/ WaitVmGone \/ ListVolumes \/ DestroyVolumes
  <2>1. pc \in Unwinding /\ pos # 15
    BY <1>17, <1>a, StepsOwners, ImageOwners
       DEF CleanupVm, WaitVmGone, ListVolumes, DestroyVolumes, AtCleanup,
           LeakInv, LabelPos, Unwinding
  <2>2. NextCleanup \/ (\E l \in Unwinding : GoTo(l))
    BY <1>17 DEF CleanupVm, WaitVmGone, ListVolumes, DestroyVolumes, Unwinding
  <2>3. /\ UNCHANGED <<cfg, result, known, newImage, catalogue, lost>>
        /\ vm' # "none" => vm # "none"
        /\ abandoned \subseteq abandoned'
    BY <1>17
       DEF CleanupVm, WaitVmGone, ListVolumes, DestroyVolumes, DeleteVmEffect,
           VmAlive, cloud, program
  <2> QED
    BY <2>1, <2>2, <2>3, ImageCleanup
<1>18. CASE CleanupSecurityGroup \/ CleanupPublicIp \/ CleanupKeyPair
  <2>1. pc = "unwind" /\ pos # 15 /\ NextCleanup
    BY <1>18, <1>a, StepsOwners, ImageOwners
       DEF CleanupSecurityGroup, CleanupPublicIp, CleanupKeyPair, DeleteTemp,
           AtCleanup
  <2>2. /\ UNCHANGED <<cfg, result, known, newImage, catalogue, lost, vm>>
        /\ abandoned \subseteq abandoned'
    BY <1>18
       DEF CleanupSecurityGroup, CleanupPublicIp, CleanupKeyPair, DeleteTemp,
           program
  <2> QED
    BY <2>1, <2>2, ImageCleanup DEF Unwinding
<1>19. CASE ReturnResult
  <2>1. /\ pc = "return" /\ pc' = "done"
        /\ result' = IF "error" \in bag \/ "images" \notin bag
                       THEN "error" ELSE "artifact"
        /\ UNCHANGED <<cfg, bag, pos, known, newImage, vm, catalogue, lost, abandoned>>
    BY <1>19 DEF ReturnResult, GoTo, cloud, history
  <2> QED
    BY <2>1
       DEF ImageInv, StepLabels, OnTheWay, NameSeen, ImageKnown, Withdrawn,
           Told, InImageStep, Forward, Behind, Unwinding, Ended, Aborted
<1>20. CASE DestroyArtifact
  <2>1. /\ pc = "done" /\ pc' = "destroyed" /\ Kept
        /\ UNCHANGED <<bag, pos, lost, abandoned>>
    BY <1>20 DEF DestroyArtifact, GoTo, ArtifactState, program, history
  <2> QED
    BY <2>1
       DEF ImageInv, StepLabels, OnTheWay, NameSeen, ImageKnown, Withdrawn,
           Told, InImageStep, Forward, Behind, Unwinding, Ended, Aborted
<1>21. CASE Interrupt \/ Watch \/ UNCHANGED vars
  <2>1. /\ Kept /\ UNCHANGED <<pc, pos, lost, abandoned>>
        /\ bag' \in {bag, bag \cup {"cancelled"}}
    BY <1>21 DEF Interrupt, Watch, vars, cloud, control, program, history
  <2> QED
    BY <2>1
       DEF ImageInv, StepLabels, OnTheWay, NameSeen, ImageKnown, Withdrawn,
           Told, InImageStep, Behind, Aborted
<1>22. CASE Service
  <2>1. /\ UNCHANGED <<cfg, result, known, catalogue, bag, pc, pos, lost, abandoned>>
        /\ newImage # "pending" => newImage' = newImage
        /\ newImage' # "none" => newImage # "none"
        /\ vm' # "none" => vm # "none"
        /\ vm \in {"stopped", "terminated"} => vm' = vm
    BY <1>22 DEF Service, VmBoots, VmBootFails, VmShutsDown, VmStops,
                 VmStopsForGood, VmTerminates, VmEnds, ImageSettles, control,
                 program, history
  <2>2. newImage' # newImage
          => newImage = "pending" /\ newImage' \in {"available", "error"}
    BY <1>22 DEF Service, ImageSettles
  <2> QED
    BY <2>1, <2>2
       DEF ImageInv, StepLabels, OnTheWay, NameSeen, ImageKnown, Withdrawn,
           Told, InImageStep, Behind, Aborted
<1> QED
  BY <1>1, <1>2, <1>3, <1>4, <1>5, <1>6, <1>7, <1>8, <1>9, <1>10, <1>11,
     <1>12, <1>13, <1>14, <1>15, <1>16, <1>17, <1>18, <1>19, <1>20, <1>21,
     <1>22
     DEF Next, BuilderRun, RunAStep, Unwind, Finished

BuildInv == TypeInv /\ LeakInv /\ ImageInv

LEMMA InitBuild == Init => BuildInv
  BY InitTypes, InitLeak, InitImage DEF BuildInv

LEMMA StepBuild == BuildInv /\ [Next]_vars => BuildInv'
  BY StepTypes, StepLeak, StepImage DEF BuildInv

(***************************************************************************)
(* The images.                                                             *)
(***************************************************************************)
\* Without force, a build launches no VM while its image name is taken,
\* unless the service refused the query for the name: for every set of old
\* images (step_pre_validate.go:36-113, before the other steps).
THEOREM NameGuarded == Spec => []NameTakenStopsBuild
<1>1. BuildInv => NameTakenStopsBuild
  BY DEF BuildInv, ImageInv, NameSeen, NameTakenStopsBuild
<1> QED
  BY <1>1, InitBuild, StepBuild, PTL DEF Spec

\* An artifact of a build nobody cancelled names an image that is available,
\* however late the build was halted (builder.go:240-259 and
\* step_create_image.go:199-245).
THEOREM ArtifactAvailable == Spec => []ArtifactIsUsable
<1>1. BuildInv => ArtifactIsUsable
  <2> SUFFICES ASSUME ImageInv, pc = "done", result = "artifact",
                      "cancelled" \notin bag
               PROVE  newImage = "available"
    BY DEF BuildInv, ArtifactIsUsable
  <2>1. "images" \in bag /\ "error" \notin bag
    BY DEF ImageInv, Told
  <2>2. "image" \in known
    BY <2>1 DEF ImageInv, ImageKnown, InImageStep
  <2> QED
    BY <2>1, <2>2 DEF ImageInv, ImageKnown, Aborted
<1> QED
  BY <1>1, InitBuild, StepBuild, PTL DEF Spec

\* Only three actions change the image, and one the old images.
LEMMA ImageChanges ==
  ASSUME [Next]_vars
  PROVE  /\ newImage' # newImage => CreateImage \/ CleanupImage \/ Service
         /\ catalogue' # catalogue => DeregisterOne
<1> DEFINE Same == UNCHANGED <<newImage, catalogue>>
<1>1. ASSUME RunAStep PROVE Same \/ CreateImage \/ DeregisterOne
  BY <1>1
     DEF RunAStep, StartStep, PreValidate, SourceImageInfo, NetworkInfo,
         KeyPairRun, PublicIpRun, SecurityGroupRun, CleanupVolumesRun,
         GetPassword, ConnectOrProvision, CleanupTempKeys, RunSourceVm,
         WaitVmRunning, LinkPublicIp, PublishVm, StopVm, WaitVmStopped,
         DeregisterImage, DeregisterDone, WaitImageAvailable, ReadImage,
         UpdateImage, CreateTags, NoEffect, cloud
<1>2. ASSUME Unwind PROVE Same \/ CleanupImage
  BY <1>2
     DEF Unwind, SkipCleanup, EmptyCleanup, AllUnwound, CleanupVm, WaitVmGone,
         ListVolumes, DestroyVolumes, CleanupSecurityGroup, CleanupPublicIp,
         CleanupKeyPair, DeleteTemp, NoEffect, cloud
<1>3. ASSUME ReturnResult \/ DestroyArtifact \/ Interrupt \/ Watch \/ UNCHANGED vars
      PROVE  Same
  BY <1>3 DEF ReturnResult, DestroyArtifact, ArtifactState, Interrupt, Watch,
              vars, cloud
<1>4. CreateImage \/ CleanupImage \/ Service => UNCHANGED catalogue
  BY DEF CreateImage, CleanupImage, Service
<1>5. DeregisterOne => UNCHANGED newImage
  BY DEF DeregisterOne
<1> QED
  BY <1>1, <1>2, <1>3, <1>4, <1>5 DEF Next, BuilderRun, Finished

\* The image is made of a VM that no longer runs, whatever became of the
\* call that stops it (step_stop_bsu_backed_vm.go:24-73 before
\* step_create_image.go:46).
THEOREM ImageOfStoppedVm == Spec => ImageFromStoppedVm
<1>1. ASSUME BuildInv, [Next]_vars
      PROVE  newImage = "none" /\ newImage' # "none" => vm \in {"stopped", "terminated"}
  <2> SUFFICES ASSUME newImage = "none", newImage' # "none"
               PROVE  vm \in {"stopped", "terminated"}
    OBVIOUS
  <2>1. ~Service
    BY DEF Service, ImageSettles
  <2>2. ~CleanupImage
    BY <1>1 DEF CleanupImage, BuildInv, ImageInv, ImageKnown
  <2>3. CreateImage
    BY <1>1, <2>1, <2>2, ImageChanges
  <2>4. pos = 15 /\ pc = "run"
    BY <1>1, <2>3, ImageOwners
       DEF CreateImage, AtRun, BuildInv, TypeInv, TypeOK, PosOK, AtAStep
  <2> QED
    BY <1>1, <2>4 DEF BuildInv, ImageInv, OnTheWay, Forward
<1> QED
  BY <1>1, InitBuild, StepBuild, PTL DEF Spec, ImageFromStoppedVm

\* An old image goes only in a forced build, after the provisioned VM has
\* stopped and before the new image is made
\* (step_deregister_image.go:27-85, after the steps that prepare the VM).
THEOREM OldImagesSafe == Spec => OldImagesKept
<1>1. ASSUME BuildInv, [Next]_vars
      PROVE  catalogue' # catalogue
               => /\ cfg.force
                  /\ "vm" \in bag
                  /\ vm \in {"stopped", "terminated"}
                  /\ newImage = "none"
  <2> SUFFICES ASSUME catalogue' # catalogue
               PROVE  /\ cfg.force
                      /\ "vm" \in bag
                      /\ vm \in {"stopped", "terminated"}
                      /\ newImage = "none"
    OBVIOUS
  <2>1. DeregisterOne
    BY <1>1, ImageChanges
  <2>2. pc = "deregister" /\ pos = 14 /\ cfg.force
    BY <1>1, <2>1 DEF DeregisterOne, BuildInv, ImageInv, StepLabels
  <2> QED
    BY <1>1, <2>2 DEF BuildInv, ImageInv, OnTheWay, Forward, InImageStep
<1> QED
  BY <1>1, InitBuild, StepBuild, PTL DEF Spec, OldImagesKept

(***************************************************************************)
(* The promise.  Held and PromisedImage change little at a time: most      *)
(* actions are a Release, possibly of nothing.                             *)
(***************************************************************************)
NoKeyFile == "keyfile" \notin known

LEMMA KnownGrows ==
  ASSUME TypeInv, [Next]_vars
  PROVE  \/ known' = known
         \/ known' = known \cup {"image"} /\ ReadImage
         \/ \E r \in Temps \cup {"vm"} : known' = known \cup {r}
<1>1. ASSUME RunAStep
      PROVE  \/ known' = known
             \/ known' = known \cup {"image"} /\ ReadImage
             \/ \E r \in Temps \cup {"vm"} : known' = known \cup {r}
  BY <1>1
     DEF RunAStep, StartStep, PreValidate, SourceImageInfo, NetworkInfo,
         KeyPairRun, PublicIpRun, SecurityGroupRun, CleanupVolumesRun,
         GetPassword, ConnectOrProvision, CleanupTempKeys, RunSourceVm,
         WaitVmRunning, LinkPublicIp, PublishVm, StopVm, WaitVmStopped,
         DeregisterImage, DeregisterOne, DeregisterDone, CreateImage,
         WaitImageAvailable, ReadImage, UpdateImage, CreateTags, NoEffect,
         Unwanted, NotCreated, AnswerLost, Created, Temps
<1>2. ASSUME Unwind \/ ReturnResult \/ DestroyArtifact \/ Interrupt \/ Watch
               \/ Service \/ UNCHANGED vars
      PROVE  known' = known
  BY <1>2
     DEF Unwind, SkipCleanup, EmptyCleanup, AllUnwound, CleanupImage, CleanupVm,
         WaitVmGone, ListVolumes, DestroyVolumes, CleanupSecurityGroup,
         CleanupPublicIp, CleanupKeyPair, DeleteTemp, ReturnResult,
         DestroyArtifact, Interrupt, Watch, Service, NoEffect, vars
<1> QED
  BY <1>1, <1>2 DEF Next, BuilderRun, Finished

LEMMA StepNoKeyFile == TypeInv /\ NoKeyFile /\ [Next]_vars => NoKeyFile'
  BY KnownGrows DEF NoKeyFile, Temps

\* What is held only shrinks unless a step learns an id.
LEMMA HeldNarrows ==
  ASSUME NoKeyFile, known' \subseteq known \cup {"image"},
         temps' \subseteq temps \cup lost',
         VmAlive' => (VmAlive \/ "vm" \in lost'),
         lost \subseteq lost', abandoned \subseteq abandoned'
  PROVE  Held' \subseteq Held
<1> SUFFICES ASSUME NEW r \in Held' PROVE r \in Held
  OBVIOUS
<1>1. r \in known' /\ r \in Existing' /\ ~Excused(r)'
  BY DEF Held
<1>2. r \in Temps \cup {"vm", "keyfile"}
      /\ (r \in temps' \/ (r = "vm" /\ VmAlive') \/ (r = "keyfile" /\ keyFile'))
  BY <1>1 DEF Existing
<1>3. ~Excused(r) /\ r \notin lost'
  BY <1>1 DEF Excused
<1>4. r \in known /\ r # "keyfile"
  BY <1>1, <1>2 DEF NoKeyFile, Temps
<1>5. r \in Existing
  BY <1>2, <1>3, <1>4 DEF Existing
<1> QED
  BY <1>3, <1>4, <1>5 DEF Held

\* A step that learns the id of what it created acquires it.
LEMMA HeldWidens ==
  ASSUME NoKeyFile, NEW r \in Temps \cup {"vm"},
         known' = known \cup {r}, UNCHANGED <<lost, abandoned>>,
         \/ r \in Temps /\ temps' = temps \cup {r} /\ UNCHANGED vm
         \/ r = "vm" /\ VmAlive' /\ UNCHANGED temps
  PROVE  Held' = Held \/ Held' = Held \cup {r}
<1>1. \A x : Excused(x)' <=> Excused(x)
  BY DEF Excused
<1>2. \A x \in Temps \cup {"vm"} : x # r => (x \in Existing' <=> x \in Existing)
  BY DEF Existing, VmAlive, Temps
<1>3. r \in Existing'
  BY DEF Existing, Temps
<1>4. "keyfile" \notin known' /\ r # "keyfile"
  BY DEF NoKeyFile, Temps
<1>5. \A x : x # r => (x \in Held' <=> x \in Held)
  <2> SUFFICES ASSUME NEW x, x # r PROVE x \in Held' <=> x \in Held
    OBVIOUS
  <2>1. CASE x \in Temps \cup {"vm"}
    BY <1>1, <1>2, <2>1 DEF Held
  <2>2. CASE x \notin Temps \cup {"vm"}
    BY <1>4, <2>2 DEF Held, Existing, NoKeyFile
  <2> QED
    BY <2>1, <2>2
<1>6. CASE Excused(r)
  <2>1. r \notin Held /\ r \notin Held'
    BY <1>1, <1>6 DEF Held
  <2> QED
    BY <1>5, <2>1
<1>7. CASE ~Excused(r)
  <2>1. r \in Held'
    BY <1>1, <1>3, <1>7 DEF Held
  <2> QED
    BY <1>5, <2>1
<1> QED
  BY <1>6, <1>7

\* An action that learns no id and leaves the image as it is.
LEMMA QuietStep ==
  ASSUME BuildInv, NoKeyFile, known' = known, result' = result,
         newImage' = newImage \/ "image" \notin known,
         "image" \in abandoned' => ("image" \in abandoned \/ "image" \notin known),
         temps' \subseteq temps \cup lost',
         VmAlive' => (VmAlive \/ "vm" \in lost'),
         lost \subseteq lost', abandoned \subseteq abandoned'
  PROVE  Promise!Release
<1>1. Held' \subseteq Held
  BY HeldNarrows
<1>2. PromisedImage' = PromisedImage
  BY DEF PromisedImage
<1> DEFINE gone == Held \ Held'
<1>3. gone \in SUBSET Held /\ Held' = Held \ gone
  BY <1>1
<1> QED
  BY <1>2, <1>3 DEF Promise!Release

\* A step that creates a resource and learns its id.
LEMMA AcquireStep ==
  ASSUME BuildInv, NoKeyFile, NEW r \in Temps \cup {"vm"},
         known' = known \cup {r}, pc \in Forward,
         UNCHANGED <<lost, abandoned, result, newImage>>,
         \/ r \in Temps /\ temps' = temps \cup {r} /\ UNCHANGED vm
         \/ r = "vm" /\ VmAlive' /\ UNCHANGED temps
  PROVE  [Promise!Next]_(Promise!pvars)
<1>1. PromisedImage' = PromisedImage
  BY DEF PromisedImage, Temps
<1>2. result = "none"
  BY DEF BuildInv, ImageInv, Told, Forward
<1>3. CASE Held' = Held
  BY <1>1, <1>3 DEF Promise!pvars
<1>4. CASE Held' # Held
  <2>1. Held' = Held \cup {r} /\ r \notin Held
    BY <1>4, HeldWidens
  <2> QED
    BY <1>1, <1>2, <2>1 DEF Promise!Acquire, Promise!Next
<1> QED
  BY <1>3, <1>4

LEMMA StepPromise ==
  ASSUME BuildInv, NoKeyFile, [Next]_vars
  PROVE  [Promise!Next]_(Promise!pvars)
<1> USE DEF BuildInv
<1>a. pos \in 0 .. 17 /\ (pc \in AtAStep => pos > 0)
  BY DEF TypeInv, TypeOK, PosOK
<1>b. pc = "run" => pos \in 1 .. 17
  BY <1>a DEF AtAStep, PcLabels
<1>c. Promise!Release => Promise!Next
  BY DEF Promise!Next
<1>1. CASE StartStep \/ PreValidate \/ SourceImageInfo \/ NetworkInfo
           \/ CleanupVolumesRun \/ GetPassword \/ ConnectOrProvision
           \/ CleanupTempKeys \/ WaitVmRunning \/ LinkPublicIp \/ PublishVm
           \/ StopVm \/ WaitVmStopped \/ DeregisterImage \/ DeregisterOne
           \/ DeregisterDone \/ WaitImageAvailable \/ UpdateImage \/ CreateTags
  <2>1. /\ UNCHANGED <<known, result, newImage, abandoned, temps>>
        /\ VmAlive' => VmAlive
        /\ lost \subseteq lost'
    BY <1>1
       DEF StartStep, PreValidate, SourceImageInfo, NetworkInfo,
           CleanupVolumesRun, GetPassword, ConnectOrProvision, CleanupTempKeys,
           WaitVmRunning, LinkPublicIp, PublishVm, StopVm, WaitVmStopped,
           DeregisterImage, DeregisterOne, DeregisterDone, WaitImageAvailable,
           UpdateImage, CreateTags, StopVmEffect, NoEffect, VmAlive, cloud,
           program, history
  <2> QED
    BY <1>c, <2>1, QuietStep
<1>2. CASE KeyPairRun \/ PublicIpRun \/ SecurityGroupRun
  <2>1. /\ UNCHANGED <<result, newImage, abandoned, vm>> /\ pc \in Forward
    BY <1>2 DEF KeyPairRun, PublicIpRun, SecurityGroupRun, AtRun, program, Forward
  <2>2. \/ UNCHANGED <<known, temps, lost>>
        \/ \E r \in Temps : AnswerLost(r)
        \/ \E r \in Temps : Created(r)
    BY <1>2 DEF KeyPairRun, PublicIpRun, SecurityGroupRun, Unwanted, NotCreated,
       Temps
  <2>3. CASE UNCHANGED <<known, temps, lost>>
    BY <1>c, <2>1, <2>3, QuietStep DEF VmAlive
  <2>4. ASSUME NEW r \in Temps, AnswerLost(r)
        PROVE  [Promise!Next]_(Promise!pvars)
    BY <1>c, <2>1, <2>4, QuietStep DEF AnswerLost, VmAlive
  <2>5. ASSUME NEW r \in Temps, Created(r)
        PROVE  [Promise!Next]_(Promise!pvars)
    BY <2>1, <2>5, AcquireStep DEF Created
  <2> QED
    BY <2>2, <2>3, <2>4, <2>5
<1>3. CASE RunSourceVm
  <2>1. /\ UNCHANGED <<temps, newImage, result, abandoned>> /\ pc \in Forward
    BY <1>3 DEF RunSourceVm, AtRun, program, Forward
  <2>2. CASE UNCHANGED <<vm, known, lost>>
    BY <1>c, <2>1, <2>2, QuietStep DEF VmAlive
  <2>3. CASE lost' = lost \cup {"vm"} /\ UNCHANGED known
    BY <1>c, <2>1, <2>3, QuietStep
  <2>4. CASE known' = known \cup {"vm"} /\ vm' = "pending" /\ UNCHANGED lost
    BY <2>1, <2>4, AcquireStep DEF VmAlive
  <2> QED
    BY <1>3, <2>2, <2>3, <2>4 DEF RunSourceVm, CreateVmEffect
<1>4. CASE CreateImage
  <2>1. pos = 15 /\ pc = "run"
    BY <1>4, <1>b, ImageOwners DEF CreateImage, AtRun
  <2>2. "image" \notin known
    BY <2>1 DEF ImageInv, OnTheWay, Forward, InImageStep
  <2>3. /\ UNCHANGED <<temps, vm, known, result, abandoned>>
        /\ lost \subseteq lost'
    BY <1>4 DEF CreateImage, program
  <2> QED
    BY <1>c, <2>2, <2>3, QuietStep DEF VmAlive
<1>5. CASE ReadImage
  <2>1. /\ pos = 15 /\ pc = "imageRead" /\ UNCHANGED history
        /\ UNCHANGED <<result, newImage, temps, vm, keyFile>>
    BY <1>5 DEF ReadImage, cloud, program, ImageInv, StepLabels, InImageStep
  <2>2. CASE UNCHANGED known
    BY <1>c, <2>1, <2>2, QuietStep DEF VmAlive, history
  <2>3. CASE known' = known \cup {"image"}
    <3>1. /\ newImage = "available" /\ abandoned = {} /\ result = "none"
          /\ "image" \notin known
      BY <2>1 DEF ImageInv, OnTheWay, Told, Forward, InImageStep
    <3>2. PromisedImage = "none" /\ PromisedImage' = "published"
      BY <2>1, <2>3, <3>1 DEF PromisedImage, history
    <3>3. Held' = Held
      BY <2>1, <2>3 DEF Held, Existing, Excused, VmAlive, history, Temps
    <3> QED
      BY <2>1, <3>1, <3>2, <3>3 DEF Promise!Publish, Promise!Next
  <2> QED
    BY <1>5, <2>2, <2>3 DEF ReadImage
<1>6. CASE SkipCleanup \/ CleanupImage
  <2>1. /\ UNCHANGED <<known, result, temps, vm, lost>>
        /\ pc = "unwind" /\ abandoned \subseteq abandoned'
    BY <1>6 DEF SkipCleanup, CleanupImage, AtCleanup, cloud, program
  <2>2. PromisedImage' = PromisedImage
        \/ (PromisedImage = "published" /\ PromisedImage' = "withdrawn")
    <3>1. newImage' \in {newImage, "deregistered"}
      BY <1>6 DEF SkipCleanup, CleanupImage, cloud
    <3> QED
      BY <2>1, <3>1 DEF PromisedImage
  <2>3. Held' \subseteq Held
    BY <2>1, HeldNarrows DEF VmAlive
  <2>4. CASE PromisedImage' = PromisedImage
    <3> DEFINE gone == Held \ Held'
    <3>1. gone \in SUBSET Held /\ Held' = Held \ gone
      BY <2>3
    <3> QED
      BY <2>1, <2>4, <3>1 DEF Promise!Release, Promise!Next
  <2>5. CASE PromisedImage = "published" /\ PromisedImage' = "withdrawn"
    <3>1. pos = 15
      <4>1. newImage' # newImage \/ ("image" \in abandoned' /\ "image" \notin abandoned)
        BY <2>1, <2>5 DEF PromisedImage
      <4>2. CASE CleanupImage
        BY <1>a, <4>2, ImageOwners DEF CleanupImage, AtCleanup
      <4>3. CASE SkipCleanup
        <5>1. pos \in 1 .. 17 /\ Steps[pos] \in WithCleanup
              /\ "image" \in Owned[Steps[pos]]
          BY <1>a, <4>1, <4>3 DEF SkipCleanup, cloud
        <5>2. Steps[pos] = "CreateImage"
          BY <5>1 DEF WithCleanup, Owned
        <5> QED
          BY <5>1, <5>2, ImageOwners
      <4> QED
        BY <1>6, <4>2, <4>3
    <3>2. abandoned' \subseteq abandoned \cup {"image"}
      BY <1>6, <3>1, ImageOwners DEF SkipCleanup, CleanupImage, Owned
    <3>3. Held' = Held
      <4>1. \A r \in Existing : Excused(r)' <=> Excused(r)
        BY <2>1, <3>2 DEF Excused, Existing, Temps
      <4>2. \A r \in Temps \cup {"vm"} : r \in Existing' <=> r \in Existing
        BY <2>1 DEF Existing, VmAlive, Temps
      <4>3. Held \subseteq Temps \cup {"vm"} /\ Held' \subseteq Temps \cup {"vm"}
        BY <2>1 DEF Held, Existing, NoKeyFile
      <4>4. ASSUME NEW r \in Temps \cup {"vm"} PROVE r \in Held' <=> r \in Held
        BY <2>1, <4>1, <4>2, <4>4 DEF Held
      <4> QED
        BY <4>3, <4>4
    <3>4. result = "none"
      BY <2>1 DEF ImageInv, Told
    <3> QED
      BY <2>1, <2>5, <3>3, <3>4 DEF Promise!Withdraw, Promise!Next
  <2> QED
    BY <2>2, <2>4, <2>5
<1>7. CASE EmptyCleanup \/ AllUnwound \/ CleanupVm \/ WaitVmGone \/ ListVolumes
           \/ DestroyVolumes \/ CleanupSecurityGroup \/ CleanupPublicIp
           \/ CleanupKeyPair
  <2>1. /\ UNCHANGED <<known, result, newImage, lost>>
        /\ temps' \subseteq temps
        /\ VmAlive' => VmAlive
        /\ abandoned \subseteq abandoned'
        /\ "image" \in abandoned' => "image" \in abandoned
    BY <1>7
       DEF EmptyCleanup, AllUnwound, CleanupVm, WaitVmGone, ListVolumes,
           DestroyVolumes, CleanupSecurityGroup, CleanupPublicIp,
           CleanupKeyPair, DeleteTemp, DeleteVmEffect, NoEffect, VmAlive,
           cloud, program, history
  <2> QED
    BY <1>c, <2>1, QuietStep
<1>8. CASE ReturnResult
  <2>1. /\ pc = "return"
        /\ UNCHANGED <<known, newImage, temps, vm, keyFile, lost, abandoned>>
        /\ result' = IF "error" \in bag \/ "images" \notin bag
                       THEN "error" ELSE "artifact"
    BY <1>8 DEF ReturnResult, cloud, history
  <2>2. result = "none"
    BY <2>1 DEF ImageInv, Told
  <2>3. Held = {}
    <3>1. Settled(4) /\ Settled(5) /\ Settled(6) /\ Settled(8)
      BY <2>1 DEF LeakInv, Behind, Ended
    <3>2. /\ "keypair" \in temps => Excused("keypair")
          /\ "publicip" \in temps => Excused("publicip")
          /\ "group" \in temps => Excused("group")
          /\ VmAlive => Excused("vm")
      BY <3>1 DEF Settled
    <3>3. ASSUME NEW r \in Held PROVE FALSE
      <4>1. r \in Existing /\ ~Excused(r) /\ r # "keyfile"
        BY <3>3 DEF Held, NoKeyFile
      <4>2. temps \subseteq Temps
        BY DEF TypeInv, TypeOK, CloudTypeOK
      <4> QED
        BY <3>2, <4>1, <4>2 DEF Existing, Temps
    <3> QED
      BY <3>3
  <2>4. Held' = Held /\ PromisedImage' = PromisedImage
    BY <2>1 DEF Held, Existing, Excused, VmAlive, PromisedImage
  <2>5. CASE "error" \in bag \/ "images" \notin bag
    <3>1. PromisedImage # "published"
      BY <2>1, <2>5
         DEF PromisedImage, ImageInv, ImageKnown, Withdrawn, Behind, Ended
    <3> QED
      BY <2>1, <2>2, <2>3, <2>4, <2>5, <3>1 DEF Promise!Answer, Promise!Next
  <2>6. CASE ~("error" \in bag \/ "images" \notin bag)
    <3>1. PromisedImage # "none"
      BY <2>1, <2>6 DEF PromisedImage, ImageInv, ImageKnown, InImageStep
    <3> QED
      BY <2>1, <2>2, <2>3, <2>4, <2>6, <3>1 DEF Promise!Answer, Promise!Next
  <2> QED
    BY <2>5, <2>6
<1>9. CASE DestroyArtifact \/ Interrupt \/ Watch \/ UNCHANGED vars
  <2>1. UNCHANGED <<known, result, newImage, temps, vm, lost, abandoned>>
    BY <1>9 DEF DestroyArtifact, ArtifactState, Interrupt, Watch, vars, cloud,
                program, history
  <2> QED
    BY <1>c, <2>1, QuietStep DEF VmAlive
<1>10. CASE Service
  <2>1. UNCHANGED <<known, result, temps, lost, abandoned>>
    BY <1>10 DEF Service, program, history
  <2>2. VmAlive' => VmAlive
    BY <1>10 DEF Service, VmBoots, VmBootFails, VmShutsDown, VmStops,
                 VmStopsForGood, VmTerminates, VmEnds, VmAlive
  <2>3. newImage' = newImage \/ "image" \notin known
    BY <1>10 DEF Service, ImageSettles, ImageInv, ImageKnown
  <2> QED
    BY <1>c, <2>1, <2>2, <2>3, QuietStep
<1> QED
  BY <1>1, <1>2, <1>3, <1>4, <1>5, <1>6, <1>7, <1>8, <1>9, <1>10
     DEF Next, BuilderRun, RunAStep, Unwind, Finished

\* The build implements BuildPromise, for every set of configurations,
\* devices and old images: it answers once, holding nothing, and its answer
\* agrees with what it published and withdrew (builder.go:103-259 with the
\* handlers and Cleanups of the seventeen steps).
THEOREM PromiseHolds == Spec => PromiseKept
<1>1. Init => NoKeyFile /\ Promise!Init
  BY DEF Init, NoKeyFile, Promise!Init, Held, PromisedImage
<1>2. BuildInv /\ NoKeyFile /\ [Next]_vars => NoKeyFile'
  BY StepNoKeyFile DEF BuildInv
<1>3. BuildInv /\ NoKeyFile /\ [Next]_vars => [Promise!Next]_(Promise!pvars)
  BY StepPromise
<1> QED
  BY <1>1, <1>2, <1>3, InitBuild, StepBuild, PTL DEF Spec, PromiseKept, Promise!Spec

(***************************************************************************)
(* A build comes to its end.  Way measures what is before it: the steps    *)
(* and their labels, then the Cleanups.  The one loop, over the images to  *)
(* deregister, takes one of them each time.                                *)
(***************************************************************************)
Toward(label) ==
    CASE label = "runner" -> 7 [] label = "run" -> 6 [] label = "boot" -> 5
      [] label = "link" -> 4 [] label = "imageRead" -> 2 [] OTHER -> 3

Way ==
    CASE pc \in Forward -> 40 + 8 * (17 - pos) + Toward(pc)
      [] pc = "unwind" -> 2 * pos + 3
      [] pc \in {"vmGone", "destroyVolumes"} -> 2 * pos + 2
      [] pc = "return" -> 2
      [] pc = "done" -> 1
      [] OTHER -> 0

\* No step leads back; a step of Builder.Run leads on, or in the loop over
\* the images found leaves one less of them.
Onward ==
    /\ Way' < Way \/ (Way' = Way /\ todo' \subseteq todo)
    /\ BuilderRun => Way' < Way \/ todo' # todo

LEMMA TowardTyped == \A l : Toward(l) \in 2 .. 7
BY DEF Toward

LEMMA WayTyped == TypeInv => Way \in 0 .. 175
<1> SUFFICES ASSUME TypeInv PROVE Way \in 0 .. 175
  OBVIOUS
<1>1. pos \in 0 .. 17 /\ (pc \in Forward => pos > 0)
  BY DEF TypeInv, TypeOK, PosOK, AtAStep, PcLabels, Forward
<1>2. CASE pc \in Forward
  <2>1. Way = 40 + 8 * (17 - pos) + Toward(pc)
    BY <1>2 DEF Way, Forward
  <2> QED
    BY <1>1, <1>2, <2>1, TowardTyped
<1>3. CASE pc \notin Forward
  BY <1>1, <1>3 DEF Way
<1> QED
  BY <1>2, <1>3

\* The moves of a handler lead on: to the next step, to the Cleanups, to a
\* later label of the same step, and from a Cleanup to the one before.
LEMMA ContinueLeadsOn ==
  ASSUME TypeInv, pc \in Forward, NEW b, Continue(b), cfg' = cfg
  PROVE  Way' < Way
<1>1. pos \in 1 .. 17
  BY DEF TypeInv, TypeOK, PosOK, AtAStep, PcLabels, Forward
<1>2. Way = 40 + 8 * (17 - pos) + Toward(pc)
  BY DEF Way, Forward
<1>3. CASE pc' = "unwind" /\ pos' = pos
  <2>1. Way' = 2 * pos + 3
    BY <1>3 DEF Way, Forward
  <2> QED
    BY <1>1, <1>2, <2>1, TowardTyped
<1>4. CASE pc' = "runner" /\ pos' = pos + 1
  <2>1. Way' = 40 + 8 * (17 - (pos + 1)) + 7
    BY <1>4 DEF Way, Forward, Toward
  <2> QED
    BY <1>1, <1>2, <2>1, TowardTyped
<1> QED
  BY <1>3, <1>4 DEF Continue

LEMMA HaltLeadsOn ==
  ASSUME TypeInv, pc \in Forward, NEW b, Halt(b)
  PROVE  Way' < Way
<1>1. pos \in 1 .. 17
  BY DEF TypeInv, TypeOK, PosOK, AtAStep, PcLabels, Forward
<1>2. Way = 40 + 8 * (17 - pos) + Toward(pc)
  BY DEF Way, Forward
<1>3. Way' = 2 * pos + 3
  BY DEF Way, Halt, Forward
<1> QED
  BY <1>1, <1>2, <1>3, TowardTyped

LEMMA GoToLeadsOn ==
  ASSUME TypeInv, pc \in Forward, NEW l \in Forward, GoTo(l), Toward(l) < Toward(pc)
  PROVE  Way' < Way
<1>1. pos \in 1 .. 17 /\ pos' = pos
  BY DEF TypeInv, TypeOK, PosOK, AtAStep, PcLabels, Forward, GoTo
<1>2. Way = 40 + 8 * (17 - pos) + Toward(pc)
  BY DEF Way, Forward
<1>3. Way' = 40 + 8 * (17 - pos) + Toward(l)
  BY <1>1 DEF Way, GoTo, Forward
<1> QED
  BY <1>1, <1>2, <1>3, TowardTyped

LEMMA CleanupLeadsOn ==
  ASSUME TypeInv, pc \in Unwinding, pos > 0,
         NextCleanup \/ (pc = "unwind" /\ GoTo("vmGone"))
                     \/ (pc = "unwind" /\ GoTo("destroyVolumes"))
  PROVE  Way' < Way
<1>1. pos \in 1 .. 17
  BY DEF TypeInv, TypeOK
<1>2. Way \in {2 * pos + 3, 2 * pos + 2} /\ (pc = "unwind" => Way = 2 * pos + 3)
  BY DEF Way, Forward, Unwinding
<1>3. CASE NextCleanup
  <2>1. Way' = 2 * (pos - 1) + 3
    BY <1>3 DEF NextCleanup, Way, Forward
  <2> QED
    BY <1>1, <1>2, <2>1
<1>4. CASE GoTo("vmGone") \/ GoTo("destroyVolumes")
  <2>1. Way' = 2 * pos + 2
    BY <1>4 DEF GoTo, Way, Forward
  <2> QED
    BY <1>1, <1>2, <1>4, <2>1 DEF NextCleanup, GoTo
<1> QED
  BY <1>3, <1>4

LEMMA RunLeadsOn ==
  ASSUME TypeInv, RunAStep
  PROVE  Way' < Way \/ (Way' = Way /\ todo' # todo /\ todo' \subseteq todo)
<1> USE ContinueLeadsOn, HaltLeadsOn DEF Fail
<1>a. /\ Toward("run") = 6 /\ Toward("boot") = 5 /\ Toward("link") = 4
      /\ Toward("publish") = 3
      /\ Toward("imageWait") = 3 /\ Toward("imageRead") = 2
      /\ Toward("stopWait") = 3 /\ Toward("deregister") = 3
  BY DEF Toward
<1>1. CASE StartStep
  <2>1. pc \in Forward /\ pos \in 1 .. 17 /\ Way = 40 + 8 * (17 - pos) + 7
    BY <1>1 DEF StartStep, TypeInv, TypeOK, PosOK, AtAStep, PcLabels, Forward, Way,
       Toward
  <2>2. CASE pc' = "run" /\ pos' = pos
    <3>1. Way' = 40 + 8 * (17 - pos) + 6
      BY <2>2 DEF Way, Forward, Toward
    <3> QED
      BY <2>1, <3>1
  <2>3. CASE pc' = "unwind" /\ pos' = pos - 1
    <3>1. Way' = 2 * (pos - 1) + 3
      BY <2>3 DEF Way, Forward
    <3> QED
      BY <2>1, <3>1
  <2> QED
    BY <1>1, <2>2, <2>3 DEF StartStep
<1>2. CASE \/ PreValidate \/ SourceImageInfo \/ NetworkInfo \/ GetPassword
           \/ ConnectOrProvision \/ CleanupTempKeys \/ CleanupVolumesRun
           \/ UpdateImage \/ CreateTags
  <2>1. pc \in Forward /\ cfg' = cfg
    BY <1>2
    DEF PreValidate, SourceImageInfo, NetworkInfo, GetPassword,
        ConnectOrProvision, CleanupTempKeys, CleanupVolumesRun, UpdateImage,
        CreateTags, AtRun, Forward, NoEffect, program
  <2>2. (\E b : Continue(b)) \/ (\E b : Halt(b))
    BY <1>2
    DEF PreValidate, SourceImageInfo, NetworkInfo, GetPassword,
        ConnectOrProvision, CleanupTempKeys, CleanupVolumesRun, UpdateImage,
        CreateTags, ContinueOrFail, HaltQuietly
  <2> QED
    BY <2>1, <2>2
<1>3. CASE KeyPairRun \/ PublicIpRun \/ SecurityGroupRun
  <2>1. pc \in Forward /\ cfg' = cfg
    BY <1>3 DEF KeyPairRun, PublicIpRun, SecurityGroupRun, AtRun, Forward, program
  <2>2. (\E b : Continue(b)) \/ (\E b : Halt(b))
    BY <1>3 DEF KeyPairRun, PublicIpRun, SecurityGroupRun, Unwanted, NotCreated,
       AnswerLost, SaveDebugKey
  <2> QED
    BY <2>1, <2>2
<1>4. CASE RunSourceVm \/ WaitVmRunning \/ LinkPublicIp \/ PublishVm
  <2>1. pc \in Forward /\ cfg' = cfg
    BY <1>4 DEF RunSourceVm, WaitVmRunning, LinkPublicIp, PublishVm, AtRun, Forward,
       NoEffect, program
  <2>2. CASE RunSourceVm
    <3>1. (\E b : Halt(b)) \/ GoTo("boot")
      BY <2>2 DEF RunSourceVm
    <3>2. pc = "run" /\ "boot" \in Forward
      BY <2>2 DEF RunSourceVm, AtRun, Forward
    <3> QED
      BY <1>a, <2>1, <3>1, <3>2, GoToLeadsOn
  <2>3. CASE WaitVmRunning
    BY <1>a, <2>1, <2>3, GoToLeadsOn DEF WaitVmRunning, Forward
  <2>4. CASE LinkPublicIp
    <3>1. (\E b : Halt(b)) \/ GoTo("publish")
      BY <2>4 DEF LinkPublicIp
    <3>2. pc = "link" /\ "publish" \in Forward
      BY <2>4 DEF LinkPublicIp, Forward
    <3> QED
      BY <1>a, <2>1, <3>1, <3>2, GoToLeadsOn
  <2>5. CASE PublishVm
    BY <2>1, <2>5 DEF PublishVm
  <2> QED
    BY <1>4, <2>2, <2>3, <2>4, <2>5
<1>5. CASE \/ StopVm \/ WaitVmStopped \/ DeregisterImage \/ DeregisterDone
           \/ WaitImageAvailable \/ ReadImage
  <2>1. pc \in Forward /\ cfg' = cfg
    BY <1>5 DEF StopVm, WaitVmStopped, DeregisterImage, DeregisterDone,
       WaitImageAvailable, ReadImage, AtRun, Forward, NoEffect, program
  <2>2. \/ \E b : Continue(b)
        \/ \E b : Halt(b)
        \/ \E l \in Forward : GoTo(l) /\ Toward(l) < Toward(pc)
    BY <1>a, <1>5 DEF StopVm, WaitVmStopped, DeregisterImage, DeregisterDone,
       WaitImageAvailable, ReadImage, AtRun, Forward
  <2> QED
    BY <2>1, <2>2, GoToLeadsOn
<1>6. CASE DeregisterOne
  <2>1. pc \in Forward /\ todo' # todo /\ todo' \subseteq todo
    BY <1>6 DEF DeregisterOne, Forward
  <2>2. CASE GoTo("deregister")
    BY <1>6, <2>1, <2>2 DEF DeregisterOne, GoTo, Way
  <2>3. CASE ~GoTo("deregister")
    BY <1>6, <2>1, <2>3 DEF DeregisterOne
  <2> QED
    BY <2>2, <2>3
<1>7. CASE CreateImage
  <2>1. pc = "run" /\ pc \in Forward /\ pos \in 1 .. 17
    BY <1>7 DEF CreateImage, AtRun, Forward, TypeInv, TypeOK, PosOK, AtAStep,
       PcLabels
  <2>2. CASE pc' = "imageWait" /\ pos' = pos
    <3>1. Way = 40 + 8 * (17 - pos) + 6 /\ Way' = 40 + 8 * (17 - pos) + 3
      BY <2>1, <2>2 DEF Way, Forward, Toward
    <3> QED
      BY <2>1, <3>1
  <2> QED
    BY <1>7, <2>1, <2>2 DEF CreateImage
<1> QED
  BY <1>1, <1>2, <1>3, <1>4, <1>5, <1>6, <1>7 DEF RunAStep

LEMMA UnwindLeadsOn ==
  ASSUME TypeInv, Unwind
  PROVE  Way' < Way
<1>1. CASE AllUnwound
  BY <1>1 DEF AllUnwound, GoTo, Way, Forward
<1>2. CASE ~AllUnwound
  <2>1. pc \in Unwinding /\ pos > 0
    BY <1>2
    DEF Unwind, SkipCleanup, EmptyCleanup, CleanupImage, CleanupVm, WaitVmGone,
        ListVolumes, DestroyVolumes, CleanupSecurityGroup, CleanupPublicIp,
        CleanupKeyPair, AtCleanup, Unwinding, TypeInv, PosOK, AtAStep, PcLabels
  <2>2. \/ NextCleanup
        \/ pc = "unwind" /\ GoTo("vmGone")
        \/ pc = "unwind" /\ GoTo("destroyVolumes")
    BY <1>2
    DEF Unwind, SkipCleanup, EmptyCleanup, CleanupImage, CleanupVm, WaitVmGone,
        ListVolumes, DestroyVolumes, CleanupSecurityGroup, CleanupPublicIp,
        CleanupKeyPair, DeleteTemp, AtCleanup
  <2> QED
    BY <2>1, <2>2, CleanupLeadsOn
<1> QED
  BY <1>1, <1>2

LEMMA StepLeadsOn == TypeInv /\ [Next]_vars => [Onward]_vars
<1> SUFFICES ASSUME TypeInv, Next PROVE Onward
  BY DEF Onward
<1>1. BuilderRun => Way' < Way \/ (Way' = Way /\ todo' # todo /\ todo' \subseteq todo)
  <2>1. ReturnResult => Way' < Way
    BY DEF ReturnResult, GoTo, Way, Forward
  <2> QED
    BY <2>1, RunLeadsOn, UnwindLeadsOn DEF BuilderRun
<1>2. DestroyArtifact => Way' < Way
  BY DEF DestroyArtifact, GoTo, Way, Forward
<1>3. Interrupt \/ Watch \/ Service \/ Finished => Way' = Way /\ todo' = todo
  BY DEF Interrupt, Watch, Service, Finished, Way, vars, control, program
<1> QED
  BY <1>1, <1>2, <1>3 DEF Next, Onward

\* Builder.Run takes at most 175 steps and one more for every image it is to
\* deregister, whatever fails, whoever interrupts it and whatever the service
\* does: no step of the build, of its surroundings or of a Cleanup leads
\* back.  So Termination fails only of a step that is never taken.
THEOREM RunIsBounded == Spec => [](Way \in 0 .. 175) /\ [][Onward]_vars
<1> QED
  BY InitTypes, StepTypes, WayTyped, StepLeadsOn, PTL DEF Spec
=============================================================================
