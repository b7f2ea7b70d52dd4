------------------------------- MODULE Cloud --------------------------------
(***************************************************************************)
(* The part of the NumSpot service one image build touches.  The service   *)
(* is not in the repository: this module says what the plugin's calls and  *)
(* waits assume of it.  A call has an outcome the caller sees and an       *)
(* effect here, and the two need not agree (see Build).                    *)
(***************************************************************************)
CONSTANTS
    Devices,        \* device names of the source VM's volumes
    OldImages       \* images of the destination name, from earlier builds

VARIABLES
    temps,          \* the key pair, public IP and group this build created
    vm,             \* state of the source VM
    linked,         \* the public IP is linked to the source VM
    volumes,        \* state of the VM's volume of each device
    catalogue,      \* the members of OldImages still registered
    snapshots,      \* the members of OldImages whose snapshots still exist
    newImage        \* state of the image this build creates

cloud == <<temps, vm, linked, volumes, catalogue, snapshots, newImage>>

Temps == {"keypair", "publicip", "group"}

VmStates == {"none", "pending", "running", "stopping", "stopped",
             "shutting-down", "terminated"}

VolumeStates == {"none", "attached", "available", "deleted"}

ImageStates == {"none", "pending", "available", "error", "deregistered"}

CloudTypeOK ==
    /\ temps \subseteq Temps
    /\ vm \in VmStates
    /\ linked \in BOOLEAN
    /\ volumes \in [Devices -> VolumeStates]
    /\ catalogue \subseteq OldImages
    /\ snapshots \subseteq OldImages
    /\ newImage \in ImageStates

CloudInit ==
    /\ temps = {}
    /\ vm = "none"
    /\ linked = FALSE
    /\ volumes = [d \in Devices |-> "none"]
    /\ catalogue \in SUBSET OldImages
    /\ snapshots = catalogue
    /\ newImage = "none"

VmAlive == vm \notin {"none", "terminated"}

(* The service refuses to delete a security group a live VM uses, and a    *)
(* public IP linked to a live VM.                                          *)
InUse(r) ==
    \/ r = "group" /\ VmAlive
    \/ r = "publicip" /\ linked /\ VmAlive

(***************************************************************************)
(* Effects of the calls that change the VM.                                *)
(***************************************************************************)
CreateVmEffect ==
    /\ vm' = "pending"
    /\ volumes' = [d \in Devices |-> "attached"]

StopVmEffect == vm' = IF vm = "running" THEN "stopping" ELSE vm

DeleteVmEffect == vm' = IF VmAlive THEN "shutting-down" ELSE vm

(***************************************************************************)
(* What the service does by itself.  A terminated VM lets go of its        *)
(* volumes: those marked delete-on-deletion disappear with it.             *)
(***************************************************************************)
VmEnds(autoDelete) ==
    /\ vm' = "terminated"
    /\ volumes' = [d \in Devices |->
                     IF d \in autoDelete THEN "deleted" ELSE "available"]

VmBoots == vm = "pending" /\ vm' = "running" /\ UNCHANGED volumes

VmBootFails(autoDelete) == vm = "pending" /\ VmEnds(autoDelete)

\* A shutdown from inside the guest, or by the user of a build that left
\* stopping the VM to them.
VmShutsDown == vm = "running" /\ vm' = "stopping" /\ UNCHANGED volumes

VmStops == vm = "stopping" /\ vm' = "stopped" /\ UNCHANGED volumes

\* With shutdown behaviour "terminate" a VM that shuts down ends.
VmStopsForGood(autoDelete) == vm = "stopping" /\ VmEnds(autoDelete)

VmTerminates(autoDelete) == vm = "shutting-down" /\ VmEnds(autoDelete)

ImageSettles == newImage = "pending" /\ newImage' \in {"available", "error"}
=============================================================================
