---------------------------- MODULE BuildsProofs ----------------------------
(***************************************************************************)
(* Proofs about Builds, for any number of builds and old images: the image *)
(* made last stands, a name is cleared before an image of it is made, and  *)
(* every snapshot left over is accounted for.                              *)
(***************************************************************************)
EXTENDS Builds, TLAPS

Before == {"check", "work", "list", "loop", "create"}

\* What a build that has not made its image yet has, and what one has that
\* came past its wait and was not aborted.
OwnImage ==
    \A b \in Builders :
        /\ pc[b] \in Before => image[b] = "none" /\ known[b] = None
        /\ pc[b] \in {"read", "finish"} => image[b] \in {"available", "gone"}
        /\ pc[b] \in {"unwind", "done"} /\ ~Aborted(b)
             => image[b] \in {"available", "gone"}
        /\ image[b] # "none" => last # None
        /\ known[b] # None => image[b] # "none"

\* If the image made last is gone, then a build deregistered it that has yet
\* to make its own, or was aborted before or after.
LastGone ==
    last # None =>
        /\ image[last] # "none"
        /\ image[last] = "gone"
             => \E b \in Builders : pc[b] \in Before \/ Aborted(b)

\* Only a build at its end has an outcome.
OutcomeOK ==
    \A b \in Builders :
        /\ outcome[b] # "none" => pc[b] = "done"
        /\ outcome[b] = "artifact" => "error" \notin bag[b]

\* Where each build is in clearing the name.  What stood when it began can
\* only go: no image comes back.
Clearing ==
    \A b \in Builders :
        /\ \A i \in earlier[b] : image[i] # "none"
        /\ b \notin refused =>
            /\ pc[b] \in {"work", "list"} /\ ~force[b] => earlier[b] = {}
            /\ pc[b] = "loop" => earlier[b] \cap Standing \subseteq found[b]
            /\ pc[b] = "create" => earlier[b] \cap Standing = {}

BuildsInv ==
    /\ TypeOK
    /\ OwnImage
    /\ LastGone
    /\ OutcomeOK
    /\ Clearing
    /\ NameClearedFirst
    /\ SnapshotsAccounted

LEMMA InitBuilds == Init => BuildsInv
<1> SUFFICES ASSUME Init PROVE BuildsInv
  OBVIOUS
<1>1. PICK old \in SUBSET OldImages :
        image = [i \in Images |-> IF i \in old THEN "available" ELSE "none"]
  BY DEF Init
<1>2. image \in [Images -> {"none", "pending", "available", "error", "gone"}]
  BY <1>1
<1>3. snapshot \subseteq Images
  BY DEF Init, Standing
<1>4. \A b \in Builders : b \in Images /\ image[b] = "none"
  BY <1>1, BuildsAssumption, SMTT(30) DEF Images
<1>5. TypeOK
  BY <1>2, <1>3 DEF Init, TypeOK, Order
<1>6. OwnImage /\ LastGone /\ OutcomeOK
  BY <1>4 DEF Init, OwnImage, LastGone, OutcomeOK, Before
<1>7. Clearing /\ NameClearedFirst
  BY DEF Init, Clearing, NameClearedFirst
<1>8. SnapshotsAccounted
  BY <1>1, <1>3 DEF SnapshotsAccounted
<1> QED
  BY <1>5, <1>6, <1>7, <1>8 DEF BuildsInv

\* Each step of a build keeps the types.
LEMMA StepTypeOK ==
  ASSUME BuildsInv, NEW b \in Builders, BuildStep(b) \/ Interrupt(b)
  PROVE  TypeOK'
<1> USE DEF BuildsInv, TypeOK, config, catalogue, progress, history, At,
            GoTo, Continue, Halt, Order, Standing, Images
<1>1. CASE Check(b)
  BY <1>1, BuildsAssumption, SMTT(30) DEF Check
<1>2. CASE Work(b)
  BY <1>2, BuildsAssumption, SMTT(30) DEF Work
<1>3. CASE ListImages(b)
  BY <1>3, BuildsAssumption, SMTT(30) DEF ListImages
<1>4. CASE DeregisterOne(b)
  BY <1>4, BuildsAssumption, SMTT(30) DEF DeregisterOne, Deregister
<1>5. CASE DeregisterDone(b)
  BY <1>5, BuildsAssumption, SMTT(30) DEF DeregisterDone
<1>6. CASE CreateImage(b)
  BY <1>6, BuildsAssumption, SMTT(30) DEF CreateImage
<1>7. CASE WaitImage(b)
  BY <1>7, BuildsAssumption, SMTT(30) DEF WaitImage
<1>8. CASE ReadImage(b)
  BY <1>8, BuildsAssumption, SMTT(30) DEF ReadImage
<1>9. CASE Finish(b)
  BY <1>9, BuildsAssumption, SMTT(30) DEF Finish
<1>10. CASE StopCancelled(b)
  BY <1>10, BuildsAssumption, SMTT(30) DEF StopCancelled
<1>11. CASE Cleanup(b)
  BY <1>11, BuildsAssumption, SMTT(30) DEF Cleanup, Deregister
<1>12. CASE Interrupt(b)
  BY <1>12, BuildsAssumption, SMTT(30) DEF Interrupt
<1> QED
  BY <1>1, <1>2, <1>3, <1>4, <1>5, <1>6, <1>7, <1>8, <1>9, <1>10, <1>11,
     <1>12 DEF BuildStep

\* What a build knows of its own image stays true, whoever moves.
LEMMA StepOwnImage ==
  ASSUME BuildsInv, NEW b \in Builders, BuildStep(b) \/ Interrupt(b)
  PROVE  OwnImage'
<1> USE DEF BuildsInv, TypeOK, config, catalogue, progress, history, At,
            GoTo, Continue, Halt, Order, OwnImage, Before, Aborted, Images, Standing
<1>1. CASE Check(b)
  BY <1>1, BuildsAssumption, SMTT(90) DEF Check
<1>2. CASE Work(b)
  BY <1>2, BuildsAssumption, SMTT(90) DEF Work
<1>3. CASE ListImages(b)
  BY <1>3, BuildsAssumption, SMTT(90) DEF ListImages
<1>4. CASE DeregisterOne(b)
  <2>1. /\ pc[b] = "loop"
        /\ pc' \in {pc, [pc EXCEPT ![b] = "loop"], [pc EXCEPT ![b] = "unwind"]}
        /\ pc'[b] = "unwind" => Aborted(b)'
        /\ \A c \in Builders \ {b} : bag'[c] = bag[c]
        /\ UNCHANGED <<known, last>>
    BY <1>4 DEF DeregisterOne
  <2>2. \A i \in Images : \/ image'[i] = image[i]
                          \/ image[i] # "none" /\ image'[i] = "gone"
    BY <1>4, Zenon DEF DeregisterOne, Deregister
  <2>3. \A c \in Builders : c \in Images
    BY DEF Images
  <2> QED
    BY <2>1, <2>2, <2>3, SMTT(30)
<1>5. CASE DeregisterDone(b)
  BY <1>5, BuildsAssumption, SMTT(30) DEF DeregisterDone
<1>6. CASE CreateImage(b)
  <2>1. pc[b] = "create" /\ UNCHANGED known
    BY <1>6 DEF CreateImage
  <2>2. \A c \in Builders \ {b} :
          pc'[c] = pc[c] /\ bag'[c] = bag[c] /\ image'[c] = image[c]
    BY <1>6 DEF CreateImage
  <2>3. pc'[b] = "wait" \/ (pc'[b] = "unwind" /\ Aborted(b)')
    <3>1. pc'[b] = "wait" \/ Halt(b)
      BY <1>6 DEF CreateImage
    <3>2. Halt(b) => pc'[b] = "unwind" /\ "error" \in bag'[b]
      OBVIOUS
    <3> QED
      BY <3>1, <3>2
  <2>4. UNCHANGED <<image, last>> \/ last' # None
    BY <1>6, BuildsAssumption DEF CreateImage
  <2> QED
    BY <2>1, <2>2, <2>3, <2>4, SMTT(30)
<1>7. CASE WaitImage(b)
  BY <1>7, BuildsAssumption, SMTT(90) DEF WaitImage
<1>8. CASE ReadImage(b)
  BY <1>8, BuildsAssumption, SMTT(90) DEF ReadImage
<1>9. CASE Finish(b)
  <2>1. pc[b] = "finish" /\ pc' = [pc EXCEPT ![b] = "unwind"]
    BY <1>9 DEF Finish
  <2>2. \A c \in Builders \ {b} : bag'[c] = bag[c] /\ pc'[c] = pc[c]
    BY <1>9 DEF Finish
  <2>3. UNCHANGED <<image, known, last>>
    BY <1>9 DEF Finish
  <2> QED
    BY <2>1, <2>2, <2>3, SMTT(30)
<1>10. CASE StopCancelled(b)
  BY <1>10, BuildsAssumption, SMTT(30) DEF StopCancelled
<1>11. CASE Cleanup(b)
  BY <1>11, BuildsAssumption, SMTT(30) DEF Cleanup, Deregister
<1>12. CASE Interrupt(b)
  BY <1>12, BuildsAssumption, SMTT(30) DEF Interrupt
<1> QED
  BY <1>1, <1>2, <1>3, <1>4, <1>5, <1>6, <1>7, <1>8, <1>9, <1>10, <1>11,
     <1>12 DEF BuildStep

\* A build that takes away the image made last has none yet, or is aborted.
LEMMA StepLastGone ==
  ASSUME BuildsInv, NEW b \in Builders, BuildStep(b) \/ Interrupt(b)
  PROVE  LastGone'
<1> USE DEF BuildsInv, TypeOK, config, catalogue, progress, history, At,
            GoTo, Continue, Halt, Order, OwnImage, LastGone, Before, Aborted,
            Images, Standing
<1>1. CASE Check(b)
  BY <1>1, BuildsAssumption, SMTT(30) DEF Check
<1>2. CASE Work(b)
  BY <1>2, BuildsAssumption, SMTT(90) DEF Work
<1>3. CASE ListImages(b)
  BY <1>3, BuildsAssumption, SMTT(30) DEF ListImages
<1>4. CASE DeregisterOne(b)
  BY <1>4, BuildsAssumption, SMTT(30) DEF DeregisterOne, Deregister
<1>5. CASE DeregisterDone(b)
  BY <1>5, BuildsAssumption, SMTT(30) DEF DeregisterDone
<1>6. CASE CreateImage(b)
  BY <1>6, BuildsAssumption, SMTT(30) DEF CreateImage
<1>7. CASE WaitImage(b)
  BY <1>7, BuildsAssumption, SMTT(30) DEF WaitImage
<1>8. CASE ReadImage(b)
  BY <1>8, BuildsAssumption, SMTT(30) DEF ReadImage
<1>9. CASE Finish(b)
  BY <1>9, BuildsAssumption, SMTT(30) DEF Finish
<1>10. CASE StopCancelled(b)
  BY <1>10, BuildsAssumption, SMTT(30) DEF StopCancelled
<1>11. CASE Cleanup(b)
  BY <1>11, BuildsAssumption, SMTT(30) DEF Cleanup, Deregister
<1>12. CASE Interrupt(b)
  BY <1>12, BuildsAssumption, SMTT(30) DEF Interrupt
<1> QED
  BY <1>1, <1>2, <1>3, <1>4, <1>5, <1>6, <1>7, <1>8, <1>9, <1>10, <1>11,
     <1>12 DEF BuildStep

\* Run returns once the steps and their Cleanups are over.
LEMMA StepOutcome ==
  ASSUME BuildsInv, NEW b \in Builders, BuildStep(b) \/ Interrupt(b)
  PROVE  OutcomeOK'
<1> USE DEF BuildsInv, TypeOK, config, catalogue, progress, history, At,
            GoTo, Continue, Halt, Order, OutcomeOK
<1>1. CASE Check(b)
  BY <1>1, BuildsAssumption, SMTT(30) DEF Check
<1>2. CASE Work(b)
  BY <1>2, BuildsAssumption, SMTT(30) DEF Work
<1>3. CASE ListImages(b)
  BY <1>3, BuildsAssumption, SMTT(30) DEF ListImages
<1>4. CASE DeregisterOne(b)
  BY <1>4, BuildsAssumption, SMTT(30) DEF DeregisterOne, Deregister
<1>5. CASE DeregisterDone(b)
  BY <1>5, BuildsAssumption, SMTT(30) DEF DeregisterDone
<1>6. CASE CreateImage(b)
  BY <1>6, BuildsAssumption, SMTT(30) DEF CreateImage
<1>7. CASE WaitImage(b)
  BY <1>7, BuildsAssumption, SMTT(30) DEF WaitImage
<1>8. CASE ReadImage(b)
  BY <1>8, BuildsAssumption, SMTT(30) DEF ReadImage
<1>9. CASE Finish(b)
  BY <1>9, BuildsAssumption, SMTT(30) DEF Finish
<1>10. CASE StopCancelled(b)
  BY <1>10, BuildsAssumption, SMTT(30) DEF StopCancelled
<1>11. CASE Cleanup(b)
  BY <1>11, BuildsAssumption, SMTT(30) DEF Cleanup, Deregister
<1>12. CASE Interrupt(b)
  BY <1>12, BuildsAssumption, SMTT(30) DEF Interrupt
<1> QED
  BY <1>1, <1>2, <1>3, <1>4, <1>5, <1>6, <1>7, <1>8, <1>9, <1>10, <1>11,
     <1>12 DEF BuildStep

\* The check and the loop clear the name.
LEMMA StepClearing ==
  ASSUME BuildsInv, NEW b \in Builders, BuildStep(b) \/ Interrupt(b)
  PROVE  Clearing'
<1> USE DEF BuildsInv, TypeOK, config, catalogue, progress, history, At,
            GoTo, Continue, Halt, Order, OwnImage, Clearing, Before, Images,
            Standing
<1>1. CASE Check(b)
  BY <1>1, BuildsAssumption, SMTT(30) DEF Check
<1>2. CASE Work(b)
  BY <1>2, BuildsAssumption, SMTT(30) DEF Work
<1>3. CASE ListImages(b)
  BY <1>3, BuildsAssumption, SMTT(30) DEF ListImages
<1>4. CASE DeregisterOne(b)
  BY <1>4, BuildsAssumption, SMTT(30) DEF DeregisterOne, Deregister
<1>5. CASE DeregisterDone(b)
  BY <1>5, BuildsAssumption, SMTT(30) DEF DeregisterDone
<1>6. CASE CreateImage(b)
  BY <1>6, BuildsAssumption, SMTT(30) DEF CreateImage
<1>7. CASE WaitImage(b)
  BY <1>7, BuildsAssumption, SMTT(30) DEF WaitImage
<1>8. CASE ReadImage(b)
  BY <1>8, BuildsAssumption, SMTT(30) DEF ReadImage
<1>9. CASE Finish(b)
  BY <1>9, BuildsAssumption, SMTT(30) DEF Finish
<1>10. CASE StopCancelled(b)
  BY <1>10, BuildsAssumption, SMTT(30) DEF StopCancelled
<1>11. CASE Cleanup(b)
  BY <1>11, BuildsAssumption, SMTT(30) DEF Cleanup, Deregister
<1>12. CASE Interrupt(b)
  BY <1>12, BuildsAssumption, SMTT(30) DEF Interrupt
<1> QED
  BY <1>1, <1>2, <1>3, <1>4, <1>5, <1>6, <1>7, <1>8, <1>9, <1>10, <1>11,
     <1>12 DEF BuildStep

\* An image is made only when they have.
LEMMA StepCleared ==
  ASSUME BuildsInv, NEW b \in Builders, BuildStep(b) \/ Interrupt(b)
  PROVE  NameClearedFirst'
<1> USE DEF BuildsInv, TypeOK, config, catalogue, progress, history, At,
            GoTo, Continue, Halt, Order, OwnImage, Clearing, NameClearedFirst,
            Before, Images, Standing
<1>1. CASE Check(b)
  BY <1>1, BuildsAssumption, SMTT(30) DEF Check
<1>2. CASE Work(b)
  BY <1>2, BuildsAssumption, SMTT(30) DEF Work
<1>3. CASE ListImages(b)
  BY <1>3, BuildsAssumption, SMTT(30) DEF ListImages
<1>4. CASE DeregisterOne(b)
  BY <1>4, BuildsAssumption, SMTT(30) DEF DeregisterOne, Deregister
<1>5. CASE DeregisterDone(b)
  BY <1>5, BuildsAssumption, SMTT(30) DEF DeregisterDone
<1>6. CASE CreateImage(b)
  BY <1>6, BuildsAssumption, SMTT(30) DEF CreateImage
<1>7. CASE WaitImage(b)
  BY <1>7, BuildsAssumption, SMTT(30) DEF WaitImage
<1>8. CASE ReadImage(b)
  BY <1>8, BuildsAssumption, SMTT(30) DEF ReadImage
<1>9. CASE Finish(b)
  BY <1>9, BuildsAssumption, SMTT(30) DEF Finish
<1>10. CASE StopCancelled(b)
  BY <1>10, BuildsAssumption, SMTT(30) DEF StopCancelled
<1>11. CASE Cleanup(b)
  BY <1>11, BuildsAssumption, SMTT(30) DEF Cleanup, Deregister
<1>12. CASE Interrupt(b)
  BY <1>12, BuildsAssumption, SMTT(30) DEF Interrupt
<1> QED
  BY <1>1, <1>2, <1>3, <1>4, <1>5, <1>6, <1>7, <1>8, <1>9, <1>10, <1>11,
     <1>12 DEF BuildStep

\* Snapshots outlive their image only if nobody was to delete them.
LEMMA StepSnapshots ==
  ASSUME BuildsInv, NEW b \in Builders, BuildStep(b) \/ Interrupt(b)
  PROVE  SnapshotsAccounted'
<1> USE DEF BuildsInv, TypeOK, config, catalogue, progress, history, At,
            GoTo, Continue, Halt, Order, SnapshotsAccounted, OwnImage, Images
<1>1. CASE Check(b)
  BY <1>1, BuildsAssumption, SMTT(30) DEF Check
<1>2. CASE Work(b)
  BY <1>2, BuildsAssumption, SMTT(30) DEF Work
<1>3. CASE ListImages(b)
  BY <1>3, BuildsAssumption, SMTT(30) DEF ListImages
<1>4. CASE DeregisterOne(b)
  BY <1>4, BuildsAssumption, SMTT(30) DEF DeregisterOne, Deregister
<1>5. CASE DeregisterDone(b)
  BY <1>5, BuildsAssumption, SMTT(30) DEF DeregisterDone
<1>6. CASE CreateImage(b)
  BY <1>6, BuildsAssumption, SMTT(30) DEF CreateImage
<1>7. CASE WaitImage(b)
  BY <1>7, BuildsAssumption, SMTT(30) DEF WaitImage
<1>8. CASE ReadImage(b)
  BY <1>8, BuildsAssumption, SMTT(30) DEF ReadImage
<1>9. CASE Finish(b)
  BY <1>9, BuildsAssumption, SMTT(30) DEF Finish
<1>10. CASE StopCancelled(b)
  BY <1>10, BuildsAssumption, SMTT(30) DEF StopCancelled
<1>11. CASE Cleanup(b)
  BY <1>11, BuildsAssumption, SMTT(30) DEF Cleanup, Deregister
<1>12. CASE Interrupt(b)
  BY <1>12, BuildsAssumption, SMTT(30) DEF Interrupt
<1> QED
  BY <1>1, <1>2, <1>3, <1>4, <1>5, <1>6, <1>7, <1>8, <1>9, <1>10, <1>11,
     <1>12 DEF BuildStep

LEMMA SettleKeepsInv ==
  ASSUME BuildsInv, NEW i \in Builders, ImageSettles(i) PROVE BuildsInv'
<1> USE DEF BuildsInv, TypeOK, config, progress, history
<1>1. /\ image[i] = "pending"
      /\ \E s \in {"available", "error"} : image' = [image EXCEPT ![i] = s]
      /\ UNCHANGED <<force, deleteSnapshots, snapshot, pc, found, shown, known>>
      /\ UNCHANGED <<bag, outcome, earlier, last, refused, loose>>
  BY DEF ImageSettles
<1>2. TypeOK'
  BY <1>1
<1>3. OwnImage' /\ LastGone' /\ OutcomeOK'
  BY <1>1, BuildsAssumption
  DEF OwnImage, LastGone, OutcomeOK, Before, Aborted, Images
<1>4. Standing' = Standing
  BY <1>1 DEF Standing, Images
<1>5. Clearing' /\ NameClearedFirst' /\ SnapshotsAccounted'
  BY <1>1, <1>4 DEF Clearing, NameClearedFirst, SnapshotsAccounted, Images
<1> QED
  BY <1>2, <1>3, <1>5

LEMMA StepBuilds == BuildsInv /\ [Next]_vars => BuildsInv'
<1> SUFFICES ASSUME BuildsInv, [Next]_vars PROVE BuildsInv'
  OBVIOUS
<1>1. CASE \E b \in Builders : BuildStep(b) \/ Interrupt(b)
  <2> PICK b \in Builders : BuildStep(b) \/ Interrupt(b)
    BY <1>1
  <2> QED
    BY StepTypeOK, StepOwnImage, StepLastGone, StepOutcome, StepClearing,
       StepCleared, StepSnapshots DEF BuildsInv
<1>2. CASE \E i \in Builders : ImageSettles(i)
  BY <1>2, SettleKeepsInv
<1>3. CASE UNCHANGED vars
  BY <1>3 DEF vars, config, catalogue, progress, history, BuildsInv, TypeOK,
              OwnImage, LastGone, OutcomeOK, Clearing, NameClearedFirst,
              SnapshotsAccounted, Aborted, Standing
<1> QED
  BY <1>1, <1>2, <1>3 DEF Next, Finished

\* Builds that share a catalogue keep their types: in particular what each
\* would deregister in its Cleanup is its own image.
THEOREM BuildsTypeCorrect == Spec => []TypeOK
<1>1. BuildsInv => TypeOK
  BY DEF BuildsInv
<1> QED
  BY <1>1, InitBuilds, StepBuilds, PTL DEF Spec

\* Any number of builds may deregister each other's images: if all of them
\* have returned an artifact and none was cancelled, the image made last is
\* available.  A build that fails may have deregistered it before.
THEOREM BuildsLeaveAnImage == Spec => []LastImageStands
<1>1. BuildsInv => LastImageStands
  <2> SUFFICES ASSUME BuildsInv, \A b \in Builders :
                        outcome[b] = "artifact" /\ "cancelled" \notin bag[b]
               PROVE  last # None /\ image[last] = "available"
    BY DEF LastImageStands
  <2>1. \A b \in Builders : pc[b] = "done" /\ ~Aborted(b)
    BY DEF BuildsInv, TypeOK, OutcomeOK, Aborted
  <2>2. \A b \in Builders : image[b] \in {"available", "gone"}
    BY <2>1 DEF BuildsInv, OwnImage
  <2>3. last # None
    BY <2>2, BuildsAssumption DEF BuildsInv, OwnImage
  <2>4. last \in Builders
    BY <2>3 DEF BuildsInv, TypeOK
  <2>5. image[last] # "gone"
    BY <2>1, <2>3 DEF BuildsInv, LastGone, Before
  <2> QED
    BY <2>2, <2>3, <2>4, <2>5
<1> QED
  BY <1>1, InitBuilds, StepBuilds, PTL DEF Spec

\* Whatever other builds do meanwhile, a build whose queries and deletions
\* were not refused makes its image only when all that stood before is gone.
THEOREM BuildsClearName == Spec => []NameClearedFirst
<1>1. BuildsInv => NameClearedFirst
  BY DEF BuildsInv
<1> QED
  BY <1>1, InitBuilds, StepBuilds, PTL DEF Spec

\* No snapshot is left over that a build was to delete.
THEOREM BuildsAccountSnapshots == Spec => []SnapshotsAccounted
<1>1. BuildsInv => SnapshotsAccounted
  BY DEF BuildsInv
<1> QED
  BY <1>1, InitBuilds, StepBuilds, PTL DEF Spec
=============================================================================
