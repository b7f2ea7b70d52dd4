------------------------------- MODULE Builds -------------------------------
(***************************************************************************)
(* Several builds of one image name at a time, as far as the images of     *)
(* that name and their snapshots go: the name check of each, its list of   *)
(* the images to deregister, its own image and its Cleanup.  The builds    *)
(* know nothing of each other; the catalogue is all they share.            *)
(***************************************************************************)
CONSTANTS
    Builders,       \* the builds; each makes at most one image, named like it
    OldImages,      \* images of the name from before
    None            \* no image

ASSUME BuildsAssumption ==
    /\ Builders # {}
    /\ Builders \cap OldImages = {}
    /\ None \notin Builders \cup OldImages

VARIABLES
    force, deleteSnapshots, \* ForceDeregister, ForceDeleteSnapshot
    image,          \* state of every image
    snapshot,       \* images whose snapshots exist
    pc,             \* where each build is
    found,          \* images it has yet to deregister
    shown,          \* those of them whose snapshots the list told
    known,          \* s.image, what its Cleanup would deregister
    bag,            \* the keys of each state bag that decide on the result
    outcome,        \* what Run returned
    earlier,        \* history: the images that stood when each build began
    last,           \* history: the build that made its image last
    refused,        \* history: builds a query or deletion of which went wrong
    loose           \* history: images gone whose snapshots nobody was to
                    \* delete

config == <<force, deleteSnapshots>>
catalogue == <<image, snapshot>>
progress == <<found, shown, known, bag, outcome>>
history == <<earlier, last, refused, loose>>
vars == <<config, catalogue, pc, progress, history>>

Images == Builders \cup OldImages

Standing == {i \in Images : image[i] \in {"pending", "available", "error"}}

\* The old images deregistered when the new one is there.
OrderListLate ==
    [check |-> "work", work |-> "create", create |-> "wait", wait |-> "read",
     read |-> "list", list |-> "finish", finish |-> "unwind"]

\* The order of the steps; "work" is all that comes before the VM has stopped.
Order ==
    [check |-> "work", work |-> "list", list |-> "create", create |-> "wait",
     wait |-> "read", read |-> "finish", finish |-> "unwind"]

Init ==
    /\ force \in [Builders -> BOOLEAN]
    /\ deleteSnapshots \in [Builders -> BOOLEAN]
    /\ image \in {[i \in Images |-> IF i \in old THEN "available" ELSE "none"] :
                    old \in SUBSET OldImages}
    /\ snapshot = Standing
    /\ pc = [b \in Builders |-> "check"]
    /\ found = [b \in Builders |-> {}]
    /\ shown = [b \in Builders |-> {}]
    /\ known = [b \in Builders |-> None]
    /\ bag = [b \in Builders |-> {}]
    /\ outcome = [b \in Builders |-> "none"]
    /\ earlier = [b \in Builders |-> {}]
    /\ last = None
    /\ refused = {}
    /\ loose = {}

At(b, label) == pc[b] = label

GoTo(b, label) == pc' = [pc EXCEPT ![b] = label] /\ UNCHANGED bag

Continue(b) == GoTo(b, Order[pc[b]])

\* "error" is put into the bag and ActionHalt returned.
Halt(b) ==
    /\ pc' = [pc EXCEPT ![b] = "unwind"]
    /\ bag' = [bag EXCEPT ![b] = @ \cup {"error"}]

(***************************************************************************)
(* StepPreValidate, and the steps up to StepStopBsuBackedVm.               *)
(***************************************************************************)
\* Only images that are ready taken for a conflict.
CheckReadyOnly(b) ==
    /\ At(b, "check")
    /\ \/ /\ force[b] \/ \A i \in Images : image[i] # "available"
          /\ Continue(b)
          /\ UNCHANGED refused
       \/ ~force[b] /\ Continue(b) /\ refused' = refused \cup {b}
       \/ ~force[b] /\ Halt(b) /\ UNCHANGED refused
    /\ earlier' = [earlier EXCEPT ![b] = Standing]
    /\ UNCHANGED <<config, catalogue, found, shown, known, outcome,
                   last, loose>>

\* A refused query reads as no image.
Check(b) ==
    /\ At(b, "check")
    /\ \/ (force[b] \/ Standing = {}) /\ Continue(b) /\ UNCHANGED refused
       \/ ~force[b] /\ Continue(b) /\ refused' = refused \cup {b}
       \/ ~force[b] /\ Halt(b) /\ UNCHANGED refused
    /\ earlier' = [earlier EXCEPT ![b] = Standing]
    /\ UNCHANGED <<config, catalogue, found, shown, known, outcome,
                   last, loose>>

Work(b) ==
    /\ At(b, "work")
    /\ Continue(b) \/ Halt(b)
    /\ UNCHANGED <<config, catalogue, found, shown, known, outcome,
                   history>>

(***************************************************************************)
(* StepDeregisterImage.                                                    *)
(***************************************************************************)
\* The list has the images of all builds.  It tells the snapshots of those
\* that are complete, and may tell those of others.
ListImages(b) ==
    /\ At(b, "list")
    /\ \/ /\ ~force[b]
          /\ Continue(b)
          /\ UNCHANGED <<found, shown, refused>>
       \/ /\ force[b]
          /\ Continue(b) \/ Halt(b)
          /\ refused' = refused \cup {b}
          /\ UNCHANGED <<found, shown>>
       \/ /\ force[b]
          /\ GoTo(b, "loop")
          /\ found' = [found EXCEPT ![b] = Standing]
          /\ \E part \in SUBSET {i \in Standing : image[i] # "available"} :
               shown' = [shown EXCEPT ![b] =
                           {i \in Standing : image[i] = "available"} \cup part]
          /\ UNCHANGED refused
    /\ UNCHANGED <<config, catalogue, known, outcome, earlier, last,
                   loose>>

Deregister(i) ==
    image' = [image EXCEPT ![i] = IF @ = "none" THEN @ ELSE "gone"]

\* The snapshots deleted before the image that uses them, which the service
\* refuses.
DeregisterOneBackwards(b) ==
    /\ At(b, "loop")
    /\ \E i \in found[b] :
         /\ found' = [found EXCEPT ![b] = @ \ {i}]
         /\ Deregister(i)
         /\ snapshot' = IF image[i] = "gone" THEN snapshot \ {i} ELSE snapshot
         /\ loose' = IF deleteSnapshots[b] /\ i \in shown[b]
                       THEN loose ELSE loose \cup {i}
    /\ GoTo(b, "loop")
    /\ UNCHANGED <<config, shown, known, outcome, earlier, last,
                   refused>>

\* One turn of the loop.  A call that is refused goes unnoticed; one that
\* fails halts, executed or not.  The service keeps a snapshot in use.
DeregisterOne(b) ==
    /\ At(b, "loop")
    /\ \E i \in found[b] :
         /\ found' = [found EXCEPT ![b] = @ \ {i}]
         /\ \/ /\ Deregister(i)
               /\ IF deleteSnapshots[b] /\ i \in shown[b]
                    THEN snapshot' = snapshot \ {i} /\ UNCHANGED loose
                    ELSE loose' = loose \cup {i} /\ UNCHANGED snapshot
               /\ GoTo(b, "loop")
               /\ UNCHANGED refused
            \/ /\ UNCHANGED image \/ Deregister(i)
               /\ UNCHANGED <<snapshot, loose>>
               /\ GoTo(b, "loop") \/ Halt(b)
               /\ refused' = refused \cup {b}
    /\ UNCHANGED <<config, shown, known, outcome, earlier, last>>

DeregisterDone(b) ==
    /\ At(b, "loop")
    /\ found[b] = {}
    /\ GoTo(b, Order["list"])
    /\ UNCHANGED <<config, catalogue, found, shown, known, outcome,
                   history>>

(***************************************************************************)
(* stepCreateImage, and the steps that update and tag the image.           *)
(***************************************************************************)
CreateImage(b) ==
    /\ At(b, "create")
    /\ \/ Halt(b) /\ UNCHANGED <<catalogue, last>>
       \/ /\ \/ Halt(b)
             \/ /\ pc' = [pc EXCEPT ![b] = Order[@]]
                /\ bag' = [bag EXCEPT ![b] = @ \cup {"images"}]
          /\ image' = [image EXCEPT ![b] = "pending"]
          /\ snapshot' = snapshot \cup {b}
          /\ last' = b
    /\ UNCHANGED <<config, found, shown, known, outcome, earlier,
                   refused, loose>>

\* An image another build has deregistered never becomes available.
WaitImage(b) ==
    /\ At(b, "wait")
    /\ (image[b] = "available" /\ Continue(b)) \/ Halt(b)
    /\ UNCHANGED <<config, catalogue, found, shown, known, outcome,
                   history>>

\* Read by the name instead of the id.
ReadImageByName(b) ==
    /\ At(b, "read")
    /\ \E i \in Standing : known' = [known EXCEPT ![b] = i] /\ Continue(b)
    /\ UNCHANGED <<config, catalogue, found, shown, outcome, history>>

ReadImage(b) ==
    /\ At(b, "read")
    /\ \/ b \in Standing /\ Continue(b) /\ known' = [known EXCEPT ![b] = b]
       \/ Halt(b) /\ UNCHANGED known
    /\ UNCHANGED <<config, catalogue, found, shown, outcome, history>>

\* Without Tags nobody looks at the image again.
Finish(b) ==
    /\ At(b, "finish")
    /\ Continue(b) \/ Halt(b)
    /\ UNCHANGED <<config, catalogue, found, shown, known, outcome,
                   history>>

Aborted(b) == bag[b] \cap {"error", "cancelled"} # {}

\* Cleanup deregisters the image, and leaves its snapshots where they are.
Cleanup(b) ==
    /\ At(b, "unwind")
    /\ \/ /\ known[b] # None
          /\ Aborted(b)
          /\ \/ /\ Deregister(known[b])
                /\ loose' = loose \cup {known[b]}
                /\ UNCHANGED refused
             \/ refused' = refused \cup {b} /\ UNCHANGED <<image, loose>>
       \/ /\ known[b] = None \/ ~Aborted(b)
          /\ UNCHANGED <<image, loose, refused>>
    /\ GoTo(b, "done")
    /\ outcome' = [outcome EXCEPT ![b] =
                     IF "error" \in bag[b] \/ "images" \notin bag[b]
                       THEN "error" ELSE "artifact"]
    /\ UNCHANGED <<config, snapshot, found, shown, known, earlier, last>>

(***************************************************************************)
(* The surroundings.                                                       *)
(***************************************************************************)
Interrupt(b) ==
    /\ ~At(b, "done")
    /\ "cancelled" \notin bag[b]
    /\ bag' = [bag EXCEPT ![b] = @ \cup {"cancelled"}]
    /\ UNCHANGED <<config, catalogue, pc, found, shown, known, outcome, history>>

\* The runner starts no step of a cancelled build.
StopCancelled(b) ==
    /\ pc[b] \in {"check", "work", "list", "create", "finish"}
    /\ "cancelled" \in bag[b]
    /\ GoTo(b, "unwind")
    /\ UNCHANGED <<config, catalogue, found, shown, known, outcome, history>>

ImageSettles(i) ==
    /\ image[i] = "pending"
    /\ \E s \in {"available", "error"} : image' = [image EXCEPT ![i] = s]
    /\ UNCHANGED <<config, snapshot, pc, progress, history>>

Finished == (\A b \in Builders : At(b, "done")) /\ UNCHANGED vars

BuildStep(b) ==
    \/ Check(b) \/ Work(b) \/ ListImages(b) \/ DeregisterOne(b)
    \/ DeregisterDone(b) \/ CreateImage(b) \/ WaitImage(b) \/ ReadImage(b)
    \/ Finish(b) \/ StopCancelled(b) \/ Cleanup(b)

Next ==
    \/ \E b \in Builders : BuildStep(b) \/ Interrupt(b)
    \/ \E i \in Builders : ImageSettles(i)
    \/ Finished

Spec == Init /\ [][Next]_vars

(***************************************************************************)
(* Properties.                                                             *)
(***************************************************************************)
TypeOK ==
    /\ force \in [Builders -> BOOLEAN]
    /\ deleteSnapshots \in [Builders -> BOOLEAN]
    /\ image \in [Images -> {"none", "pending", "available", "error", "gone"}]
    /\ snapshot \subseteq Images
    /\ pc \in [Builders -> DOMAIN Order \cup {"loop", "unwind", "done"}]
    /\ found \in [Builders -> SUBSET Images]
    /\ shown \in [Builders -> SUBSET Images]
    /\ known \in [Builders -> Builders \cup {None}]
    /\ \A b \in Builders : known[b] \in {b, None}
    /\ bag \in [Builders -> SUBSET {"error", "cancelled", "images"}]
    /\ outcome \in [Builders -> {"none", "artifact", "error"}]
    /\ earlier \in [Builders -> SUBSET Images]
    /\ last \in Builders \cup {None}
    /\ refused \subseteq Builders
    /\ loose \subseteq Images

\* When every build has returned an artifact, and none was cancelled, the
\* image made last is there: however the builds overlap, and whatever they
\* deregistered of each other's, the name is never left without an image.
LastImageStands ==
    (\A b \in Builders : outcome[b] = "artifact" /\ "cancelled" \notin bag[b])
        => last # None /\ image[last] = "available"

\* Once a build has made its image, none stands of those that stood when it
\* began, forced or not, unless a call of it was refused (image_config.go:41:
\* deregister before creating).
NameClearedFirst ==
    \A b \in Builders :
        image[b] # "none" /\ b \notin refused => earlier[b] \cap Standing = {}

\* The snapshots of an image that is gone are gone too, unless the build it
\* was of withdrew it, or no build that found it was to delete them, or a call
\* was refused.
SnapshotsAccounted ==
    \A i \in snapshot :
        image[i] = "gone" /\ refused = {} => i \in loose
=============================================================================
